---------------------------- MODULE Spec2Model ----------------------------
(***************************************************************************)
(* Capture controller of the LabTool firmware (fw/program/source/capture.c)*)
(* as a state machine: the sample-rate table, the buffer planner, the      *)
(* configure / arm / disarm / start / stop entry points and the completion *)
(* callbacks of the two capture engines (SGPIO = digital, VADC = analog).  *)
(***************************************************************************)
EXTENDS Integers, Sequences, FiniteSets, TLC

(***************************************************************************)
(* Status codes (cmd_status_t).  The first four are originated by          *)
(* capture.c; the last two stand for errors passed through from the global *)
(* state machine and from an engine.                                       *)
(***************************************************************************)
CMD_STATUS_OK == "CMD_STATUS_OK"

CMD_STATUS_ERR_CFG_NO_CHANNELS_ENABLED == "CMD_STATUS_ERR_CFG_NO_CHANNELS_ENABLED"

CMD_STATUS_ERR_CFG_INVALID_SIGNAL_COMBINATION == "CMD_STATUS_ERR_CFG_INVALID_SIGNAL_COMBINATION"

CMD_STATUS_ERR_UNSUPPORTED_SAMPLE_RATE == "CMD_STATUS_ERR_UNSUPPORTED_SAMPLE_RATE"

ERR_STATE_REFUSED == "CMD_STATUS_ERR_STATE_REFUSED"

ERR_ENGINE == "CMD_STATUS_ERR_ENGINE"

(***************************************************************************)
(* Program constants.                                                      *)
(***************************************************************************)
INITIAL_SAMPLE_RATE_IDX == 14

SGPIO_ONLY_OFFSET == 25

\* Escape values of the analog-channel-count field and what they resolve to.
NUM_ENABLED_VADC_SHORT_SHOT == 65534

NUM_ENABLED_VADC_CALIBRATE == 65535

NUM_ENABLED_VADC_SS_ACTUAL == 2

NUM_ENABLED_VADC_CA_ACTUAL == 2

VADC_SHORT_SHOT_SAMPLES == 1024

MAX_NUM_DIOS == 11

ANALOG_IN_RANGES == 8

BUFFER_BASE == \H20000000

BUFFER_SIZE == \H10000

BUFFER_TOP == \H20010000

NULL == "NULL"

(***************************************************************************)
(* RATECONFIG: the sample-rate table, indexed from 0 as in the C source.   *)
(***************************************************************************)
RateRow(r, m, n, p, c, f) ==
    [sampleRate |-> r, pll0_msel |-> m, pll0_nsel |-> n, pll0_psel |-> p,
     counter |-> c, pll0_freq |-> f]

RATECONFIG ==
    LET t == <<
        RateRow(       50, 100, 250, 24, 4000,    200000),
        RateRow(      100, 100, 250, 12, 4000,    400000),
        RateRow(      200, 100, 250,  6, 4000,    800000),
        RateRow(      500, 100, 200,  3, 4000,   2000000),
        RateRow(     1000, 100, 150,  2, 4000,   4000000),
        RateRow(     2000, 100, 150,  1, 4000,   8000000),
        RateRow(     5000, 100,  60,  1, 4000,  20000000),
        RateRow(    10000, 100,  30,  1, 4000,  40000000),
        RateRow(    20000, 100,  15,  1, 4000,  80000000),
        RateRow(    50000, 100,  15,  1, 1600,  80000000),
        RateRow(   100000, 100,  15,  1,  800,  80000000),
        RateRow(   200000, 100,  15,  1,  400,  80000000),
        RateRow(   500000, 100,  15,  1,  160,  80000000),
        RateRow(  1000000, 100,  15,  1,   80,  80000000),
        RateRow(  2000000, 100,  15,  1,   40,  80000000),
        RateRow(  5000000, 100,  15,  1,   16,  80000000),
        RateRow( 10000000, 100,  15,  1,    8,  80000000),
        RateRow( 20000000, 100,  15,  1,    4,  80000000),
        RateRow( 30000000, 100,  20,  1,    2,  60000000),
        RateRow( 40000000, 100,  15,  1,    2,  80000000),
        RateRow( 50000000, 100,  24,  1,    1,  50000000),
        RateRow( 60000000, 100,  20,  1,    1,  60000000),
        RateRow( 70000000,  70,  12,  1,    1,  70000000),
        RateRow( 80000000, 100,  15,  1,    1,  80000000),
        RateRow(        0,   0,   0,  0,    0,         0),
        RateRow( 10000000,  50,   3,  1,   20, 200000000),
        RateRow( 20000000,  50,   3,  1,   10, 200000000),
        RateRow( 30000000,  15,   1,  1,    6, 180000000),
        RateRow( 40000000,  50,   3,  1,    5, 200000000),
        RateRow( 50000000,  50,   3,  1,    4, 200000000),
        RateRow( 60000000,  15,   1,  1,    3, 180000000),
        RateRow( 70000000,  70,   4,  1,    3, 210000000),
        RateRow( 80000000,  20,   1,  1,    3, 240000000),
        RateRow( 90000000,  15,   1,  1,    2, 180000000),
        RateRow(100000000,  50,   3,  1,    2, 200000000),
        RateRow(        0,   0,   0,  0,    0,         0) >>
    IN  [i \in 0..(Len(t) - 1) |-> t[i + 1]]

(***************************************************************************)
(* BUFFERCONFIG: the buffer combination table for mixed capture.           *)
(***************************************************************************)
BufRow(a, d, e, s) ==
    [numVADC |-> a, numDIO |-> d, buffEndSGPIO |-> e, buffStartVADC |-> s]

BUFFERCONFIG ==
    LET t == <<
        BufRow(1,  1, \H20001C00, \H20002000),
        BufRow(1,  2, \H20001C00, \H20002000),
        BufRow(1,  3, \H20003300, \H20003400),
        BufRow(1,  4, \H20003300, \H20003400),
        BufRow(1,  5, \H20005400, \H20005800),
        BufRow(1,  6, \H20005400, \H20005800),
        BufRow(1,  7, \H20005400, \H20005800),
        BufRow(1,  8, \H20005400, \H20005800),
        BufRow(1,  9, \H20005A00, \H20006000),
        BufRow(1, 10, \H20006180, \H20006400),
        BufRow(1, 11, \H200065C0, \H20006C00),
        BufRow(2,  1, \H20000F00, \H20001000),
        BufRow(2,  2, \H20000F00, \H20001000),
        BufRow(2,  3, \H20001C00, \H20002000),
        BufRow(2,  4, \H20001C00, \H20002000),
        BufRow(2,  5, \H20003200, \H20003800),
        BufRow(2,  6, \H20003200, \H20003800),
        BufRow(2,  7, \H20003200, \H20003800),
        BufRow(2,  8, \H20003200, \H20003800),
        BufRow(2,  9, \H20003600, \H20004000),
        BufRow(2, 10, \H20003C00, \H20004000),
        BufRow(2, 11, \H20003F40, \H20004800) >>
    IN  [i \in 0..(Len(t) - 1) |-> t[i + 1]]

NUM_BUFFER_CONFIGURATIONS == Cardinality(DOMAIN BUFFERCONFIG)

(***************************************************************************)
(* Bit helpers on naturals (C's & and << on unsigned values).              *)
(***************************************************************************)
Pow2(n) == IF n = 0 THEN 1 ELSE 2 ^ n

BitSet(x, i) == (x \div Pow2(i)) % 2 = 1

\* x & 0x7ff
Low11(x) == x % 2048

(***************************************************************************)
(* capture_FindSampleRateIndex                                             *)
(***************************************************************************)
RECURSIVE ScanRateTable(_, _)
ScanRateTable(i, wantedRate) ==
    IF RATECONFIG[i].sampleRate > 0
    THEN IF RATECONFIG[i].sampleRate = wantedRate
         THEN i
         ELSE ScanRateTable(i + 1, wantedRate)
    ELSE -1

\* variant: the high-speed sub-range is searched for every analog count
capture_FindSampleRateIndex_AnyCount(wantedRate, numVADC) ==
    LET hs == ScanRateTable(SGPIO_ONLY_OFFSET, wantedRate)
    IN  IF hs # -1 THEN hs ELSE ScanRateTable(0, wantedRate)

capture_FindSampleRateIndex(wantedRate, numVADC) ==
    LET hs == IF numVADC = 0 THEN ScanRateTable(SGPIO_ONLY_OFFSET, wantedRate) ELSE -1
    IN  IF hs # -1 THEN hs ELSE ScanRateTable(0, wantedRate)


(***************************************************************************)
(* capture_WeightedConfigCheck (built with DO_WEIGHTED_CONFIG_CHECK        *)
(* enabled).  cfg is a capture_cfg_t.                                      *)
(***************************************************************************)
WeightedVadc(cfg) ==
    IF cfg.numEnabledVADC = NUM_ENABLED_VADC_SHORT_SHOT THEN NUM_ENABLED_VADC_SS_ACTUAL
    ELSE IF cfg.numEnabledVADC = NUM_ENABLED_VADC_CALIBRATE THEN NUM_ENABLED_VADC_CA_ACTUAL
    ELSE cfg.numEnabledVADC

\* variant: with DIO8..DIO10 the ceiling is 60 MHz
WeightedDigitalOnly_WideCeiling(cfg) ==
    LET tmp  == Low11(cfg.sgpio.enabledChannels)
        trig == Low11(cfg.sgpio.enabledTriggers) # 0
    IN  IF tmp > 255
        THEN IF cfg.sampleRate > 60000000
             THEN CMD_STATUS_ERR_CFG_INVALID_SIGNAL_COMBINATION
             ELSE CMD_STATUS_OK
        ELSE IF tmp > 15
        THEN IF cfg.sampleRate > 50000000
             THEN CMD_STATUS_ERR_CFG_INVALID_SIGNAL_COMBINATION
             ELSE IF cfg.sampleRate > 40000000 /\ trig
             THEN CMD_STATUS_ERR_CFG_INVALID_SIGNAL_COMBINATION
             ELSE CMD_STATUS_OK
        ELSE IF tmp > 3
        THEN IF cfg.sampleRate > 80000000 /\ trig
             THEN CMD_STATUS_ERR_CFG_INVALID_SIGNAL_COMBINATION
             ELSE CMD_STATUS_OK
        ELSE CMD_STATUS_OK

\* variant: with DIO8..DIO10 and a trigger the ceiling is 10 MHz
WeightedDigitalOnly_WideTrigger(cfg) ==
    LET tmp  == Low11(cfg.sgpio.enabledChannels)
        trig == Low11(cfg.sgpio.enabledTriggers) # 0
    IN  IF tmp > 255
        THEN IF cfg.sampleRate > 20000000 \/ (cfg.sampleRate > 10000000 /\ trig)
             THEN CMD_STATUS_ERR_CFG_INVALID_SIGNAL_COMBINATION
             ELSE CMD_STATUS_OK
        ELSE IF tmp > 15
        THEN IF cfg.sampleRate > 50000000
             THEN CMD_STATUS_ERR_CFG_INVALID_SIGNAL_COMBINATION
             ELSE IF cfg.sampleRate > 40000000 /\ trig
             THEN CMD_STATUS_ERR_CFG_INVALID_SIGNAL_COMBINATION
             ELSE CMD_STATUS_OK
        ELSE IF tmp > 3
        THEN IF cfg.sampleRate > 80000000 /\ trig
             THEN CMD_STATUS_ERR_CFG_INVALID_SIGNAL_COMBINATION
             ELSE CMD_STATUS_OK
        ELSE CMD_STATUS_OK

WeightedDigitalOnly(cfg) ==
    LET tmp  == Low11(cfg.sgpio.enabledChannels)
        trig == Low11(cfg.sgpio.enabledTriggers) # 0
    IN  IF tmp > 255
        THEN IF cfg.sampleRate > 20000000
             THEN CMD_STATUS_ERR_CFG_INVALID_SIGNAL_COMBINATION
             ELSE CMD_STATUS_OK
        ELSE IF tmp > 15
        THEN IF cfg.sampleRate > 50000000
             THEN CMD_STATUS_ERR_CFG_INVALID_SIGNAL_COMBINATION
             ELSE IF cfg.sampleRate > 40000000 /\ trig
             THEN CMD_STATUS_ERR_CFG_INVALID_SIGNAL_COMBINATION
             ELSE CMD_STATUS_OK
        ELSE IF tmp > 3
        THEN IF cfg.sampleRate > 80000000 /\ trig
             THEN CMD_STATUS_ERR_CFG_INVALID_SIGNAL_COMBINATION
             ELSE CMD_STATUS_OK
        ELSE CMD_STATUS_OK

WeightedAnalogOnly(cfg, vadc) ==
    IF cfg.sampleRate > 60000000
    THEN CMD_STATUS_ERR_UNSUPPORTED_SAMPLE_RATE
    ELSE IF cfg.sampleRate > 30000000 /\ vadc >= 2
    THEN CMD_STATUS_ERR_UNSUPPORTED_SAMPLE_RATE
    ELSE CMD_STATUS_OK

\* variant: without the floor
capture_WeightedConfigCheck_NoFloor(cfg) ==
    LET vadc == WeightedVadc(cfg)
    IN  IF vadc = 0
        THEN WeightedDigitalOnly(cfg)
        ELSE IF cfg.numEnabledSGPIO = 0
        THEN WeightedAnalogOnly(cfg, vadc)
        ELSE IF cfg.sampleRate > 20000000
        THEN CMD_STATUS_ERR_CFG_INVALID_SIGNAL_COMBINATION
        ELSE CMD_STATUS_OK

\* variant: with both kinds of channels the ceiling is that of the digital
\* channels' breadth
capture_WeightedConfigCheck_Breadth(cfg) ==
    LET vadc == WeightedVadc(cfg)
    IN  IF cfg.sampleRate < 20000
        THEN CMD_STATUS_ERR_CFG_INVALID_SIGNAL_COMBINATION
        ELSE IF vadc = 0
        THEN WeightedDigitalOnly(cfg)
        ELSE IF cfg.numEnabledSGPIO = 0
        THEN WeightedAnalogOnly(cfg, vadc)
        ELSE WeightedDigitalOnly(cfg)

capture_WeightedConfigCheck(cfg) ==
    LET vadc == WeightedVadc(cfg)
    IN  IF cfg.sampleRate < 20000
        THEN CMD_STATUS_ERR_CFG_INVALID_SIGNAL_COMBINATION
        ELSE IF vadc = 0
        THEN WeightedDigitalOnly(cfg)
        ELSE IF cfg.numEnabledSGPIO = 0
        THEN WeightedAnalogOnly(cfg, vadc)
        ELSE IF cfg.sampleRate > 20000000
        THEN CMD_STATUS_ERR_CFG_INVALID_SIGNAL_COMBINATION
        ELSE CMD_STATUS_OK

(***************************************************************************)
(* The machine record m threads the whole mutable state through a handler: *)
(*   cap          capState (capture_state_t)                               *)
(*   lastNumVADC  the static local of capture_SetSampleRate                *)
(*   prefill      capture_PrefillComplete__, as the set of halves marked   *)
(*   led          the "armed" and "triggered" indicators                   *)
(*   eng          what each engine is doing: "idle", "armed" (capturing,   *)
(*                completion pending) or "disarmed" (told to stop while a  *)
(*                transfer is in flight, so a completion may still arrive) *)
(*   cyc          history of the current arm cycle (since the last reset   *)
(*                of capturedSamples by capture_Arm)                       *)
(*   calls        collaborator calls made by the running handler, in order *)
(*   cfgs, fwd, sent, from: further parts of the running handler's report: *)
(*                the blobs capture_Configure was called with, what was    *)
(*                forwarded to the engines, the samples notified, and the  *)
(*                delivering engine's state                                *)
(*   subs         the statuses the sub-steps of start / stop returned      *)
(*   args, val    arguments and value of a table function applied directly *)
(*   again, idx0  capture_SetSampleRate applied directly: it repeats the   *)
(*                arguments of a call that just returned OK; the clock     *)
(*                index it found                                           *)
(*   ret          status returned by the last completed (sub)handler       *)
(*   pc           where a capture_Arm that runs step by step stands:       *)
(*                "none", or past the "reset" of capturedSamples, past the *)
(*                "prepare" calls, past the start of the "sgpio" engine    *)
(***************************************************************************)
Log(m, c) == [m EXCEPT !.calls = Append(@, c)]

Ret(m, r) == [m EXCEPT !.ret = r]

LED_ARM_ON(m) == [m EXCEPT !.led.arm = TRUE]

LED_ARM_OFF(m) == [m EXCEPT !.led.arm = FALSE]

LED_TRIG_OFF(m) == [m EXCEPT !.led.trig = FALSE]

\* circbuff_Init(&buff, start, size)
circbuff_Init(start, size) == [start |-> start, size |-> size]

EmptyCapturedSamples ==
    [trigpoint |-> 0, sgpioTrigSample |-> 0, vadcTrigSample |-> 0,
     sgpioActiveChannels |-> 0, vadcActiveChannels |-> 0,
     sgpio_samples |-> NULL, vadc_samples |-> NULL]

\* capture_PrefillComplete__ and the CAP_PREFILL_* macros of capture.h
CAP_PREFILL_SET_AS_NEEDED(m) ==
    [Log(m, "CAP_PREFILL_SET_AS_NEEDED") EXCEPT !.prefill = {}]

CAP_PREFILL_MARK_SGPIO_DONE(m) ==
    [Log(m, "CAP_PREFILL_MARK_SGPIO_DONE") EXCEPT !.prefill = @ \cup {"SGPIO"}]

CAP_PREFILL_MARK_VADC_DONE(m) ==
    [Log(m, "CAP_PREFILL_MARK_VADC_DONE") EXCEPT !.prefill = @ \cup {"VADC"}]

\* The engines' entry points, as far as the controller observes them.
cap_sgpio_PrepareToArm(m, r) == Ret(Log(m, "cap_sgpio_PrepareToArm"), r)

cap_vadc_PrepareToArm(m, r) == Ret(Log(m, "cap_vadc_PrepareToArm"), r)

cap_sgpio_Arm(m) == [Log(m, "cap_sgpio_Arm") EXCEPT !.eng.sgpio = "armed"]

cap_vadc_Arm(m) == [Log(m, "cap_vadc_Arm") EXCEPT !.eng.vadc = "armed"]

cap_sgpio_Disarm(m) ==
    [Log(m, "cap_sgpio_Disarm") EXCEPT
        !.eng.sgpio = IF @ = "idle" THEN "idle" ELSE "disarmed"]

cap_vadc_Disarm(m) ==
    [Log(m, "cap_vadc_Disarm") EXCEPT
        !.eng.vadc = IF @ = "idle" THEN "idle" ELSE "disarmed"]

cap_sgpio_Configure(m, r) == Ret(Log(m, "cap_sgpio_Configure"), r)

cap_vadc_Configure(m, r) == Ret(Log(m, "cap_vadc_Configure"), r)

statemachine_RequestState(m, r) == Ret(Log(m, "statemachine_RequestState"), r)

(***************************************************************************)
(* History bookkeeping (not program state).  An arm cycle starts when      *)
(* capture_Arm resets capturedSamples.  cyc.sends counts the sample        *)
(* notifications of the cycle.  A cycle is clean while the capture_Arm     *)
(* that started it returned OK and no entry point other than a completion  *)
(* callback has run since; for a clean cycle cyc.cbs lists the callbacks   *)
(* delivered, cyc.failures counts the failure notifications, and cyc.bits  *)
(* holds the trigger bits each engine's done callback was given.           *)
(***************************************************************************)
Disturb(m) ==
    [m EXCEPT !.cyc.clean = FALSE, !.cyc.cbs = <<>>, !.cyc.failures = 0,
              !.cyc.bits = [sgpio |-> 0, vadc |-> 0]]

NewCycle(m) ==
    [m EXCEPT !.cyc = [sends |-> 0, failures |-> 0, cbs |-> <<>>, clean |-> FALSE,
                       bits |-> [sgpio |-> 0, vadc |-> 0]]]

EndArm(m, r) == [m EXCEPT !.ret = r, !.cyc.clean = (r = CMD_STATUS_OK)]

(***************************************************************************)
(* capture_SetInitialSampleRate                                            *)
(***************************************************************************)
capture_SetInitialSampleRate(m) ==
    [Log(Log(m, "CGU_Improved_SetPLL0audio"), "CGU_UpdateClock") EXCEPT
        !.cap.currentSampleRateIdx = INITIAL_SAMPLE_RATE_IDX]

(***************************************************************************)
(* capture_SetSampleRate                                                   *)
(***************************************************************************)
\* variant: the analog channel count of the switch is not recorded
SwitchClock_NoContext(m, i, numVADC) ==
    LET m1 == Log(Log(m, "CGU_Disable_PERIPH"), "CGU_Disable_VADC")
        m2 == [Log(m1, "CGU_Improved_SetPLL0audio") EXCEPT
                  !.cap.currentSampleRateIdx = i]
        m3 == Log(m2, "CGU_UpdateClock")
    IN  Ret(Log(Log(m3, "CGU_Enable_PERIPH"), "CGU_Enable_VADC"), CMD_STATUS_OK)

\* variant: the peripheral domains are switched back on before the PLL changes
SwitchClock_EnableFirst(m, i, numVADC) ==
    LET m1 == Log(Log(m, "CGU_Disable_PERIPH"), "CGU_Disable_VADC")
        m2 == Log(Log(m1, "CGU_Enable_PERIPH"), "CGU_Enable_VADC")
        m3 == [Log(m2, "CGU_Improved_SetPLL0audio") EXCEPT
                  !.cap.currentSampleRateIdx = i]
        m4 == Log(m3, "CGU_UpdateClock")
    IN  Ret([m4 EXCEPT !.lastNumVADC = numVADC], CMD_STATUS_OK)

SwitchClock(m, i, numVADC) ==
    LET m1 == Log(Log(m, "CGU_Disable_PERIPH"), "CGU_Disable_VADC")
        m2 == [Log(m1, "CGU_Improved_SetPLL0audio") EXCEPT
                  !.cap.currentSampleRateIdx = i]
        m3 == Log(m2, "CGU_UpdateClock")
        m4 == Log(Log(m3, "CGU_Enable_PERIPH"), "CGU_Enable_VADC")
    IN  Ret([m4 EXCEPT !.lastNumVADC = numVADC], CMD_STATUS_OK)

\* variant: two analog channels are accepted at every table rate
capture_SetSampleRate_AnyCounter(m, wantedRate, numVADC) ==
    LET oldSampleRate == RATECONFIG[m.cap.currentSampleRateIdx].sampleRate
    IN  IF wantedRate # oldSampleRate \/ m.lastNumVADC # numVADC
        THEN LET i == capture_FindSampleRateIndex(wantedRate, numVADC)
             IN  IF i # -1
                 THEN SwitchClock(m, i, numVADC)
                 ELSE Ret(m, CMD_STATUS_ERR_UNSUPPORTED_SAMPLE_RATE)
        ELSE Ret(m, CMD_STATUS_OK)

\* variant: the row is looked up as for a capture without analog channels
capture_SetSampleRate_DigitalLookup(m, wantedRate, numVADC) ==
    LET oldSampleRate == RATECONFIG[m.cap.currentSampleRateIdx].sampleRate
    IN  IF wantedRate # oldSampleRate \/ m.lastNumVADC # numVADC
        THEN LET i == capture_FindSampleRateIndex(wantedRate, 0)
             IN  IF i # -1
                 THEN IF numVADC = 2 /\ RATECONFIG[i].counter = 1
                      THEN Ret(m, CMD_STATUS_ERR_UNSUPPORTED_SAMPLE_RATE)
                      ELSE SwitchClock(m, i, numVADC)
                 ELSE Ret(m, CMD_STATUS_ERR_UNSUPPORTED_SAMPLE_RATE)
        ELSE Ret(m, CMD_STATUS_OK)

\* variant: the clock is switched only when the rate and the analog count
\* have both changed
capture_SetSampleRate_BothChanged(m, wantedRate, numVADC) ==
    LET oldSampleRate == RATECONFIG[m.cap.currentSampleRateIdx].sampleRate
    IN  IF wantedRate # oldSampleRate /\ m.lastNumVADC # numVADC
        THEN LET i == capture_FindSampleRateIndex(wantedRate, numVADC)
             IN  IF i # -1
                 THEN IF numVADC = 2 /\ RATECONFIG[i].counter = 1
                      THEN Ret(m, CMD_STATUS_ERR_UNSUPPORTED_SAMPLE_RATE)
                      ELSE SwitchClock(m, i, numVADC)
                 ELSE Ret(m, CMD_STATUS_ERR_UNSUPPORTED_SAMPLE_RATE)
        ELSE Ret(m, CMD_STATUS_OK)

capture_SetSampleRate(m, wantedRate, numVADC) ==
    LET oldSampleRate == RATECONFIG[m.cap.currentSampleRateIdx].sampleRate
    IN  IF wantedRate # oldSampleRate \/ m.lastNumVADC # numVADC
        THEN LET i == capture_FindSampleRateIndex(wantedRate, numVADC)
             IN  IF i # -1
                 THEN IF numVADC = 2 /\ RATECONFIG[i].counter = 1
                      THEN Ret(m, CMD_STATUS_ERR_UNSUPPORTED_SAMPLE_RATE)
                      ELSE SwitchClock(m, i, numVADC)
                 ELSE Ret(m, CMD_STATUS_ERR_UNSUPPORTED_SAMPLE_RATE)
        ELSE Ret(m, CMD_STATUS_OK)

(***************************************************************************)
(* capture_ConfigureCaptureBuffers                                         *)
(***************************************************************************)
\* variant: the number of enabled channels DIO0..DIOn, or -1 when there is none
HighestDIO_Count(enabledChannels) ==
    LET on == {i \in 0..MAX_NUM_DIOS : BitSet(enabledChannels, i)}
    IN  IF on = {} THEN -1 ELSE Cardinality(on)

\* highest enabled DIOi + 1, or -1 when no bit 0..MAX_NUM_DIOS is set
HighestDIO(enabledChannels) ==
    LET on == {i \in 0..MAX_NUM_DIOS : BitSet(enabledChannels, i)}
    IN  IF on = {} THEN -1
        ELSE (CHOOSE i \in on : \A j \in on : j <= i) + 1

\* variant: the analog buffer starts where the digital buffer ends
MixedBuffers_Adjacent(m, vadc, numDIO) ==
    LET hits == {i \in DOMAIN BUFFERCONFIG :
                    BUFFERCONFIG[i].numVADC = vadc /\ BUFFERCONFIG[i].numDIO = numDIO}
    IN  IF hits = {}
        THEN Ret(m, CMD_STATUS_ERR_CFG_INVALID_SIGNAL_COMBINATION)
        ELSE LET i == CHOOSE h \in hits : \A k \in hits : h <= k
             IN  Ret([m EXCEPT
                        !.cap.sampleBufferSGPIO =
                            circbuff_Init(BUFFER_BASE, BUFFERCONFIG[i].buffEndSGPIO - BUFFER_BASE),
                        !.cap.sampleBufferVADC =
                            circbuff_Init(BUFFERCONFIG[i].buffEndSGPIO,
                                          BUFFER_TOP - BUFFERCONFIG[i].buffEndSGPIO)],
                     CMD_STATUS_OK)

\* variant: the digital buffer is set to the whole region before the lookup
MixedBuffers_InitFirst(m, vadc, numDIO) ==
    LET hits == {i \in DOMAIN BUFFERCONFIG :
                    BUFFERCONFIG[i].numVADC = vadc /\ BUFFERCONFIG[i].numDIO = numDIO}
        m0 == [m EXCEPT !.cap.sampleBufferSGPIO = circbuff_Init(BUFFER_BASE, BUFFER_SIZE)]
    IN  IF hits = {}
        THEN Ret(m0, CMD_STATUS_ERR_CFG_INVALID_SIGNAL_COMBINATION)
        ELSE LET i == CHOOSE h \in hits : \A k \in hits : h <= k
             IN  Ret([m0 EXCEPT
                        !.cap.sampleBufferSGPIO =
                            circbuff_Init(BUFFER_BASE, BUFFERCONFIG[i].buffEndSGPIO - BUFFER_BASE),
                        !.cap.sampleBufferVADC =
                            circbuff_Init(BUFFERCONFIG[i].buffStartVADC,
                                          BUFFER_TOP - BUFFERCONFIG[i].buffStartVADC)],
                     CMD_STATUS_OK)

MixedBuffers(m, vadc, numDIO) ==
    LET hits == {i \in DOMAIN BUFFERCONFIG :
                    BUFFERCONFIG[i].numVADC = vadc /\ BUFFERCONFIG[i].numDIO = numDIO}
    IN  IF hits = {}
        THEN Ret(m, CMD_STATUS_ERR_CFG_INVALID_SIGNAL_COMBINATION)
        ELSE LET i == CHOOSE h \in hits : \A k \in hits : h <= k
             IN  Ret([m EXCEPT
                        !.cap.sampleBufferSGPIO =
                            circbuff_Init(BUFFER_BASE, BUFFERCONFIG[i].buffEndSGPIO - BUFFER_BASE),
                        !.cap.sampleBufferVADC =
                            circbuff_Init(BUFFERCONFIG[i].buffStartVADC,
                                          BUFFER_TOP - BUFFERCONFIG[i].buffStartVADC)],
                     CMD_STATUS_OK)

\* variant: the short-shot escape count is sized like every other count
capture_ConfigureCaptureBuffers_NoShortShot(m, cfg) ==
    IF cfg.numEnabledVADC = 0
    THEN Ret([m EXCEPT !.cap.sampleBufferSGPIO = circbuff_Init(BUFFER_BASE, BUFFER_SIZE)],
             CMD_STATUS_OK)
    ELSE LET vadc == IF cfg.numEnabledVADC = NUM_ENABLED_VADC_CALIBRATE
                     THEN NUM_ENABLED_VADC_CA_ACTUAL
                     ELSE cfg.numEnabledVADC
         IN  IF cfg.numEnabledSGPIO = 0
             THEN Ret([m EXCEPT !.cap.sampleBufferVADC = circbuff_Init(BUFFER_BASE, BUFFER_SIZE)],
                      CMD_STATUS_OK)
             ELSE MixedBuffers(m, vadc, HighestDIO(cfg.sgpio.enabledChannels))

capture_ConfigureCaptureBuffers(m, cfg) ==
    IF cfg.numEnabledVADC = 0
    THEN Ret([m EXCEPT !.cap.sampleBufferSGPIO = circbuff_Init(BUFFER_BASE, BUFFER_SIZE)],
             CMD_STATUS_OK)
    ELSE IF cfg.numEnabledVADC = NUM_ENABLED_VADC_SHORT_SHOT
    THEN Ret([m EXCEPT !.cap.sampleBufferSGPIO =
                          circbuff_Init(BUFFER_BASE, 2 * VADC_SHORT_SHOT_SAMPLES)],
             CMD_STATUS_OK)
    ELSE LET vadc == IF cfg.numEnabledVADC = NUM_ENABLED_VADC_CALIBRATE
                     THEN NUM_ENABLED_VADC_CA_ACTUAL
                     ELSE cfg.numEnabledVADC
         IN  IF cfg.numEnabledSGPIO = 0
             THEN Ret([m EXCEPT !.cap.sampleBufferVADC = circbuff_Init(BUFFER_BASE, BUFFER_SIZE)],
                      CMD_STATUS_OK)
             ELSE MixedBuffers(m, vadc, HighestDIO(cfg.sgpio.enabledChannels))

(***************************************************************************)
(* capture_Init                                                            *)
(***************************************************************************)
capture_Init(m) ==
    LET m1 == LED_TRIG_OFF(LED_ARM_OFF(Disturb(Log(m, "capture_Init"))))
        m2 == [m1 EXCEPT !.cap.sampleBufferSGPIO = circbuff_Init(BUFFER_BASE, BUFFER_SIZE),
                         !.cap.sampleBufferVADC = circbuff_Init(BUFFER_BASE, BUFFER_SIZE)]
        m3 == capture_SetInitialSampleRate(m2)
        m4 == [m3 EXCEPT !.cap.capturedSamples = EmptyCapturedSamples]
    IN  Log(Log(m4, "cap_sgpio_Init"), "cap_vadc_Init")

(***************************************************************************)
(* capture_Configure.  e gives what the collaborators answer in this call: *)
(* e.sm (statemachine_RequestState), e.sgpioCfg (cap_sgpio_Configure),     *)
(* e.vadcCfg (cap_vadc_Configure).                                         *)
(***************************************************************************)
ConfigureVadc(cfg) ==
    IF cfg.numEnabledVADC = NUM_ENABLED_VADC_SHORT_SHOT THEN NUM_ENABLED_VADC_SS_ACTUAL
    ELSE IF cfg.numEnabledVADC = NUM_ENABLED_VADC_CALIBRATE THEN NUM_ENABLED_VADC_CA_ACTUAL
    ELSE cfg.numEnabledVADC

\* variant: a short-shot request is stored as the host configuration too
ConfigureClassify_StoreAlways(m, cfg, e) ==
    IF cfg.numEnabledVADC = NUM_ENABLED_VADC_SHORT_SHOT
    THEN Ret([m EXCEPT !.cap.captureSetup = cfg,
                       !.cap.purpose = "CAPTURE_PURPOSE_SHORT_SHOT"], CMD_STATUS_OK)
    ELSE IF cfg.numEnabledVADC = NUM_ENABLED_VADC_CALIBRATE
    THEN Ret([m EXCEPT !.cap.purpose = "CAPTURE_PURPOSE_CALIBRATE"], CMD_STATUS_OK)
    ELSE statemachine_RequestState(
             [m EXCEPT !.cap.captureSetup = cfg,
                       !.cap.purpose = "CAPTURE_PURPOSE_HOST_REQUEST"], e.sm)

ConfigureClassify(m, cfg, e) ==
    IF cfg.numEnabledVADC = NUM_ENABLED_VADC_SHORT_SHOT
    THEN Ret([m EXCEPT !.cap.purpose = "CAPTURE_PURPOSE_SHORT_SHOT"], CMD_STATUS_OK)
    ELSE IF cfg.numEnabledVADC = NUM_ENABLED_VADC_CALIBRATE
    THEN Ret([m EXCEPT !.cap.purpose = "CAPTURE_PURPOSE_CALIBRATE"], CMD_STATUS_OK)
    ELSE statemachine_RequestState(
             [m EXCEPT !.cap.captureSetup = cfg,
                       !.cap.purpose = "CAPTURE_PURPOSE_HOST_REQUEST"], e.sm)

\* variant: a trigger mask counts whether or not its engine is enabled
ForcedTrigger_AnyMask(cfg, vadc) ==
    ~ (cfg.sgpio.enabledTriggers > 0 \/ cfg.vadc.enabledTriggers > 0)

ForcedTrigger(cfg, vadc) ==
    ~ (   (cfg.numEnabledSGPIO > 0 /\ cfg.sgpio.enabledTriggers > 0)
       \/ (vadc > 0 /\ cfg.vadc.enabledTriggers > 0))

ForwardSgpio(m, cfg, forcedTrigger, e) ==
    cap_sgpio_Configure(
        [m EXCEPT !.fwd = Append(@, [engine |-> "SGPIO",
                                     buff |-> m.cap.sampleBufferSGPIO,
                                     forcedTrigger |-> forcedTrigger,
                                     counter |-> RATECONFIG[m.cap.currentSampleRateIdx].counter])],
        e.sgpioCfg)

ForwardVadc(m, cfg, forcedTrigger, e) ==
    cap_vadc_Configure(
        [m EXCEPT !.fwd = Append(@, [engine |-> "VADC",
                                     buff |-> m.cap.sampleBufferVADC,
                                     forcedTrigger |-> forcedTrigger,
                                     counter |-> 0])],
        e.vadcCfg)

ConfigureEngines(m, cfg, vadc, e) ==
    LET forcedTrigger == ForcedTrigger(cfg, vadc)
        m1 == IF cfg.numEnabledSGPIO > 0 THEN ForwardSgpio(m, cfg, forcedTrigger, e) ELSE m
    IN  IF m1.ret # CMD_STATUS_OK THEN m1
        ELSE LET m2 == IF vadc > 0 THEN ForwardVadc(m1, cfg, forcedTrigger, e) ELSE m1
             IN  IF m2.ret # CMD_STATUS_OK THEN m2
                 ELSE [m2 EXCEPT !.cap.enabledSgpioChannels = cfg.numEnabledSGPIO,
                                 !.cap.enabledVadcChannels = vadc]

\* variant: without the check that a channel is enabled
ConfigureValidate_NoChannelCheck(m, cfg, vadc, e) ==
    IF capture_WeightedConfigCheck(cfg) # CMD_STATUS_OK
    THEN Ret(m, capture_WeightedConfigCheck(cfg))
    ELSE LET m1 == capture_SetSampleRate(m, cfg.sampleRate, vadc)
         IN  IF m1.ret # CMD_STATUS_OK THEN m1
             ELSE LET m2 == capture_ConfigureCaptureBuffers(m1, cfg)
                  IN  IF m2.ret # CMD_STATUS_OK THEN m2
                      ELSE ConfigureEngines(m2, cfg, vadc, e)

ConfigureValidate(m, cfg, vadc, e) ==
    IF cfg.numEnabledSGPIO = 0 /\ vadc = 0
    THEN Ret(m, CMD_STATUS_ERR_CFG_NO_CHANNELS_ENABLED)
    ELSE IF capture_WeightedConfigCheck(cfg) # CMD_STATUS_OK
    THEN Ret(m, capture_WeightedConfigCheck(cfg))
    ELSE LET m1 == capture_SetSampleRate(m, cfg.sampleRate, vadc)
         IN  IF m1.ret # CMD_STATUS_OK THEN m1
             ELSE LET m2 == capture_ConfigureCaptureBuffers(m1, cfg)
                  IN  IF m2.ret # CMD_STATUS_OK THEN m2
                      ELSE ConfigureEngines(m2, cfg, vadc, e)

\* variant: the counters are not cleared before validation
ConfigureClear_LedsOnly(m) == LED_TRIG_OFF(LED_ARM_OFF(m))

ConfigureClear(m) ==
    [LED_TRIG_OFF(LED_ARM_OFF(m)) EXCEPT !.cap.enabledSgpioChannels = 0,
                                         !.cap.enabledVadcChannels = 0]

capture_Configure(m, cfg, e) ==
    LET m0 == [Disturb(Log(m, "capture_Configure")) EXCEPT !.cfgs = Append(@, cfg)]
        m1 == ConfigureClassify(m0, cfg, e)
    IN  IF m1.ret # CMD_STATUS_OK THEN m1
        ELSE ConfigureValidate(ConfigureClear(m1), cfg, ConfigureVadc(cfg), e)

(***************************************************************************)
(* capture_Arm.  e.sm, e.prepS, e.prepV: what statemachine_RequestState,   *)
(* cap_sgpio_PrepareToArm and cap_vadc_PrepareToArm answer in this call.   *)
(***************************************************************************)
ArmReset(m) ==
    CAP_PREFILL_SET_AS_NEEDED(
        NewCycle([LED_TRIG_OFF(LED_ARM_ON(m)) EXCEPT
                     !.cap.capturedSamples = EmptyCapturedSamples]))

ArmEngines(m) ==
    LET m1 == IF m.cap.enabledSgpioChannels > 0 THEN cap_sgpio_Arm(m) ELSE m
        m2 == IF m.cap.enabledVadcChannels > 0 THEN cap_vadc_Arm(m1) ELSE m1
    IN  EndArm(m2, CMD_STATUS_OK)

\* variant: the digital engine is armed as soon as it is prepared
ArmPrepare_ArmEarly(m, e) ==
    LET m1 == IF m.cap.enabledSgpioChannels > 0
              THEN cap_sgpio_PrepareToArm(m, e.prepS)
              ELSE Ret(CAP_PREFILL_MARK_SGPIO_DONE(m), CMD_STATUS_OK)
    IN  IF m1.ret # CMD_STATUS_OK THEN EndArm(m1, m1.ret)
        ELSE LET a1 == IF m.cap.enabledSgpioChannels > 0 THEN cap_sgpio_Arm(m1) ELSE m1
                 m2 == IF m.cap.enabledVadcChannels > 0
                       THEN cap_vadc_PrepareToArm(a1, e.prepV)
                       ELSE Ret(CAP_PREFILL_MARK_VADC_DONE(a1), CMD_STATUS_OK)
             IN  IF m2.ret # CMD_STATUS_OK THEN EndArm(m2, m2.ret)
                 ELSE EndArm(IF m.cap.enabledVadcChannels > 0 THEN cap_vadc_Arm(m2) ELSE m2,
                             CMD_STATUS_OK)

\* variant: a disabled engine's half is not marked
ArmPrepare_NoMark(m, e) ==
    LET m1 == IF m.cap.enabledSgpioChannels > 0
              THEN cap_sgpio_PrepareToArm(m, e.prepS)
              ELSE Ret(m, CMD_STATUS_OK)
    IN  IF m1.ret # CMD_STATUS_OK THEN EndArm(m1, m1.ret)
        ELSE LET m2 == IF m.cap.enabledVadcChannels > 0
                       THEN cap_vadc_PrepareToArm(m1, e.prepV)
                       ELSE Ret(m1, CMD_STATUS_OK)
             IN  IF m2.ret # CMD_STATUS_OK THEN EndArm(m2, m2.ret)
                 ELSE ArmEngines(m2)

ArmPrepare(m, e) ==
    LET m1 == IF m.cap.enabledSgpioChannels > 0
              THEN cap_sgpio_PrepareToArm(m, e.prepS)
              ELSE Ret(CAP_PREFILL_MARK_SGPIO_DONE(m), CMD_STATUS_OK)
    IN  IF m1.ret # CMD_STATUS_OK THEN EndArm(m1, m1.ret)
        ELSE LET m2 == IF m.cap.enabledVadcChannels > 0
                       THEN cap_vadc_PrepareToArm(m1, e.prepV)
                       ELSE Ret(CAP_PREFILL_MARK_VADC_DONE(m1), CMD_STATUS_OK)
             IN  IF m2.ret # CMD_STATUS_OK THEN EndArm(m2, m2.ret)
                 ELSE ArmEngines(m2)

capture_Arm(m, e) ==
    LET m0 == Log(m, "capture_Arm")
        m1 == IF m.cap.purpose = "CAPTURE_PURPOSE_HOST_REQUEST"
              THEN statemachine_RequestState(m0, e.sm)
              ELSE Ret(m0, CMD_STATUS_OK)
    IN  IF m1.ret # CMD_STATUS_OK THEN m1
        ELSE ArmPrepare(ArmReset(m1), e)

\* capture_Arm in the steps between which an interrupt can be taken: the
\* function masks no interrupt, so a completion callback may run between any
\* two of its statements.  ArmEnter runs up to CAP_PREFILL_SET_AS_NEEDED.
ArmEnter(m, e) ==
    LET m0 == Log(m, "capture_Arm")
        m1 == IF m.cap.purpose = "CAPTURE_PURPOSE_HOST_REQUEST"
              THEN statemachine_RequestState(m0, e.sm)
              ELSE Ret(m0, CMD_STATUS_OK)
    IN  IF m1.ret # CMD_STATUS_OK THEN m1
        ELSE [ArmReset(m1) EXCEPT !.pc = "reset"]

\* the two prepare calls; a refusal ends capture_Arm
ArmPrepareEngines(m, e) ==
    LET m1 == IF m.cap.enabledSgpioChannels > 0
              THEN cap_sgpio_PrepareToArm(m, e.prepS)
              ELSE Ret(CAP_PREFILL_MARK_SGPIO_DONE(m), CMD_STATUS_OK)
        m2 == IF m.cap.enabledVadcChannels > 0
              THEN cap_vadc_PrepareToArm(m1, e.prepV)
              ELSE Ret(CAP_PREFILL_MARK_VADC_DONE(m1), CMD_STATUS_OK)
    IN  IF m1.ret # CMD_STATUS_OK THEN [EndArm(m1, m1.ret) EXCEPT !.pc = "none"]
        ELSE IF m2.ret # CMD_STATUS_OK THEN [EndArm(m2, m2.ret) EXCEPT !.pc = "none"]
        ELSE [m2 EXCEPT !.pc = "prepare"]

\* the start of the digital engine
ArmStartSgpio(m) ==
    [(IF m.cap.enabledSgpioChannels > 0 THEN cap_sgpio_Arm(m) ELSE m) EXCEPT
        !.pc = "sgpio"]

\* the start of the analog engine and the return
ArmStartVadc(m) ==
    [EndArm(IF m.cap.enabledVadcChannels > 0 THEN cap_vadc_Arm(m) ELSE m,
            CMD_STATUS_OK) EXCEPT !.pc = "none"]

(***************************************************************************)
(* capture_Disarm                                                          *)
(***************************************************************************)
capture_Disarm(m) ==
    LET m0 == LED_TRIG_OFF(LED_ARM_OFF(Disturb(Log(m, "capture_Disarm"))))
        m1 == IF m.cap.enabledSgpioChannels > 0 THEN cap_sgpio_Disarm(m0) ELSE m0
        m2 == IF m.cap.enabledVadcChannels > 0 THEN cap_vadc_Disarm(m1) ELSE m1
    IN  Ret(m2, CMD_STATUS_OK)

(***************************************************************************)
(* capture_Start                                                           *)
(***************************************************************************)
\* result = resultSub of the step that produced m if it failed, else the
\* result so far
KeepError(m, result) == Ret(m, IF m.ret # CMD_STATUS_OK THEN m.ret ELSE result)

\* resultSub = step(): the status a sub-step of start or stop returned
Sub(m, step) == [m EXCEPT !.subs = Append(@, [step |-> step, ret |-> m.ret])]

\* capture_Configure with the stored host configuration of m; capture_Disarm
\* before it always returns OK, so the result so far is this step's status
StartConfigure(m, eCfg) ==
    Sub(capture_Configure(m, m.cap.captureSetup, eCfg), "capture_Configure")

\* variant: re-initialises before it disarms
StartRecover_InitFirst(m, eCfg) ==
    StartConfigure(Sub(capture_Disarm(capture_Init(m)), "capture_Disarm"), eCfg)

StartRecover(m, eCfg) ==
    StartConfigure(capture_Init(Sub(capture_Disarm(m), "capture_Disarm")), eCfg)

\* variant: returns what capture_Arm returned
StartArm_Latest(m, eArm) ==
    Sub(capture_Arm([m EXCEPT !.cap.hostRequest = "CAPTURE_HOST_ARMED"], eArm),
        "capture_Arm")

StartArm(m, eArm) ==
    KeepError(
        Sub(capture_Arm([m EXCEPT !.cap.hostRequest = "CAPTURE_HOST_ARMED"], eArm),
            "capture_Arm"),
        m.ret)

capture_Start(m, eCfg, eArm) ==
    IF m.cap.captureSetup.sampleRate = 0
    THEN Ret(m, CMD_STATUS_ERR_UNSUPPORTED_SAMPLE_RATE)
    ELSE StartArm(IF m.cap.hostRequest = "CAPTURE_HOST_DISARMED"
                  THEN StartRecover(m, eCfg)
                  ELSE Ret(m, CMD_STATUS_OK),
                  eArm)

(***************************************************************************)
(* capture_ConfigureForCalibration                                         *)
(***************************************************************************)
CalibrationSetup(old, voltsPerDiv, vadc) ==
    LET val == voltsPerDiv % 8
    IN  [old EXCEPT !.numEnabledSGPIO = 0,
                    !.numEnabledVADC = vadc,
                    !.sampleRate = 1000000,
                    !.postFill = 268435300,
                    !.sgpio.enabledChannels = 0,
                    !.vadc.enabledChannels = 3,
                    !.vadc.enabledTriggers = 0,
                    !.vadc.voltPerDiv = val + 16 * val,
                    !.vadc.couplings = 0,
                    !.vadc.noiseReduction = 0]

\* capture_Configure with the calibration configuration of m
CalibrationConfigure(m, eCfg) == capture_Configure(m, m.cap.calibrationSetup, eCfg)

CalibrationArm(m, eArm) == IF m.ret = CMD_STATUS_OK THEN capture_Arm(m, eArm) ELSE m

capture_ConfigureForCalibration(m, voltsPerDiv, vadc, eCfg, eArm) ==
    CalibrationArm(
        CalibrationConfigure(
            [m EXCEPT !.cap.calibrationSetup = CalibrationSetup(@, voltsPerDiv, vadc)],
            eCfg),
        eArm)

(***************************************************************************)
(* capture_HotSandby and capture_Stop                                      *)
(***************************************************************************)
HotSandbyArm(m, eArm2) == KeepError(capture_Arm(m, eArm2), m.ret)

capture_HotSandby(m, eCfg, eArm1, eArm2) ==
    HotSandbyArm(
        capture_ConfigureForCalibration(capture_Init(m), ANALOG_IN_RANGES - 1,
                                        NUM_ENABLED_VADC_SHORT_SHOT, eCfg, eArm1),
        eArm2)

\* variant: returns what capture_Disarm returned
StopStandby_DisarmResult(m, eCfg, eArm1, eArm2) ==
    Ret(Sub(capture_HotSandby(
                [m EXCEPT !.cap.hostRequest =
                     IF @ = "CAPTURE_HOST_ARMED" THEN "CAPTURE_HOST_DISARMED" ELSE @],
                eCfg, eArm1, eArm2),
            "capture_HotSandby"),
        m.ret)

\* variant: records host intent Disarmed whatever it was
StopStandby_AlwaysDisarmed(m, eCfg, eArm1, eArm2) ==
    KeepError(
        Sub(capture_HotSandby([m EXCEPT !.cap.hostRequest = "CAPTURE_HOST_DISARMED"],
                              eCfg, eArm1, eArm2),
            "capture_HotSandby"),
        m.ret)

StopStandby(m, eCfg, eArm1, eArm2) ==
    KeepError(
        Sub(capture_HotSandby(
                [m EXCEPT !.cap.hostRequest =
                     IF @ = "CAPTURE_HOST_ARMED" THEN "CAPTURE_HOST_DISARMED" ELSE @],
                eCfg, eArm1, eArm2),
            "capture_HotSandby"),
        m.ret)

capture_Stop(m, eCfg, eArm1, eArm2) ==
    StopStandby(Sub(capture_Disarm(m), "capture_Disarm"), eCfg, eArm1, eArm2)

(***************************************************************************)
(* Completion callbacks                                                    *)
(***************************************************************************)
RECURSIVE BitOr(_, _)
BitOr(a, b) ==
    IF a = 0 THEN b
    ELSE IF b = 0 THEN a
    ELSE (IF a % 2 = 1 \/ b % 2 = 1 THEN 1 ELSE 0) + 2 * BitOr(a \div 2, b \div 2)

\* (uint32_t)(x << 16): the low 16 bits of x become the high half
ShiftLeft16(x) == (x % 65536) * 65536

usb_handler_SendSamples(m) ==
    [Log(m, "usb_handler_SendSamples") EXCEPT
        !.sent = Append(@, m.cap.capturedSamples),
        !.cyc.sends = @ + 1]

usb_handler_SignalFailedSampling(m, error) ==
    [Log(m, "usb_handler_SignalFailedSampling") EXCEPT
        !.cyc.failures = IF m.cyc.clean THEN @ + 1 ELSE @]

\* variant: notifies without waiting for the analog engine
capture_ReportSGPIODone_NoWait(m, buff, trigpoint, triggerSample, activeChannels) ==
    usb_handler_SendSamples(
        [m EXCEPT
            !.cap.capturedSamples.trigpoint = BitOr(@, trigpoint),
            !.cap.capturedSamples.sgpioTrigSample = triggerSample,
            !.cap.capturedSamples.sgpioActiveChannels = activeChannels,
            !.cap.capturedSamples.sgpio_samples = buff])

capture_ReportSGPIODone(m, buff, trigpoint, triggerSample, activeChannels) ==
    LET m1 == [m EXCEPT
                  !.cap.capturedSamples.trigpoint = BitOr(@, trigpoint),
                  !.cap.capturedSamples.sgpioTrigSample = triggerSample,
                  !.cap.capturedSamples.sgpioActiveChannels = activeChannels,
                  !.cap.capturedSamples.sgpio_samples = buff]
    IN  IF m1.cap.enabledVadcChannels = 0 \/ m1.cap.capturedSamples.vadc_samples # NULL
        THEN usb_handler_SendSamples(m1)
        ELSE m1

\* variant: signals the failure whatever the analog engine's state
capture_ReportSGPIOSamplingFailed_Always(m, error) ==
    usb_handler_SignalFailedSampling(m, error)

capture_ReportSGPIOSamplingFailed(m, error) ==
    IF m.cap.enabledVadcChannels = 0
    THEN usb_handler_SignalFailedSampling(m, error)
    ELSE m

\* variant: the analog trigger bits are merged without the shift
capture_ReportVADCDone_NoShift(m, buff, trigpoint, triggerSample, activeChannels) ==
    LET m1 == [m EXCEPT
                  !.cap.capturedSamples.trigpoint = BitOr(@, trigpoint),
                  !.cap.capturedSamples.vadcTrigSample = triggerSample,
                  !.cap.capturedSamples.vadcActiveChannels = activeChannels,
                  !.cap.capturedSamples.vadc_samples = buff]
    IN  IF m1.cap.enabledSgpioChannels = 0 \/ m1.cap.capturedSamples.sgpio_samples # NULL
        THEN usb_handler_SendSamples(m1)
        ELSE m1

capture_ReportVADCDone(m, buff, trigpoint, triggerSample, activeChannels) ==
    LET m1 == [m EXCEPT
                  !.cap.capturedSamples.trigpoint =
                      BitOr(@, ShiftLeft16(trigpoint)),
                  !.cap.capturedSamples.vadcTrigSample = triggerSample,
                  !.cap.capturedSamples.vadcActiveChannels = activeChannels,
                  !.cap.capturedSamples.vadc_samples = buff]
    IN  IF m1.cap.enabledSgpioChannels = 0 \/ m1.cap.capturedSamples.sgpio_samples # NULL
        THEN usb_handler_SendSamples(m1)
        ELSE m1

capture_ReportVADCSamplingFailed(m, error) ==
    IF m.cap.enabledSgpioChannels = 0
    THEN usb_handler_SignalFailedSampling(m, error)
    ELSE m

(***************************************************************************)
(* State.                                                                  *)
(***************************************************************************)
VARIABLES
    capState,                   \* static capture_state_t capState
    lastNumVADC,                \* static int lastNumVADC of capture_SetSampleRate
    capture_PrefillComplete__,  \* volatile uint8_t capture_PrefillComplete__
    led,                        \* the armed / triggered indicators
    eng,                        \* what the two engines are doing
    cyc,                        \* history of the current arm cycle
    pc,                         \* position of a capture_Arm run step by step
    last                        \* the last entry point run: name, status, calls

vars == <<capState, lastNumVADC, capture_PrefillComplete__, led, eng, cyc, pc, last>>

ZeroCfg ==
    [numEnabledSGPIO |-> 0, numEnabledVADC |-> 0, sampleRate |-> 0, postFill |-> 0,
     sgpio |-> [enabledChannels |-> 0, enabledTriggers |-> 0],
     vadc |-> [enabledChannels |-> 0, enabledTriggers |-> 0, voltPerDiv |-> 0,
               couplings |-> 0, noiseReduction |-> 0]]

\* the initializer of capState and of the other statics
StaticInit ==
    [cap |-> [sampleBufferSGPIO |-> circbuff_Init(0, 0),
              sampleBufferVADC |-> circbuff_Init(0, 0),
              enabledSgpioChannels |-> 0,
              enabledVadcChannels |-> 0,
              currentSampleRateIdx |-> -1,
              capturedSamples |-> EmptyCapturedSamples,
              calibrationSetup |-> ZeroCfg,
              captureSetup |-> ZeroCfg,
              purpose |-> "CAPTURE_PURPOSE_NONE",
              hostRequest |-> "CAPTURE_HOST_DOES_NOTHING"],
     lastNumVADC |-> -1,
     prefill |-> {},
     led |-> [arm |-> FALSE, trig |-> FALSE],
     eng |-> [sgpio |-> "idle", vadc |-> "idle"],
     cyc |-> [sends |-> 0, failures |-> 0, cbs |-> <<>>, clean |-> FALSE,
              bits |-> [sgpio |-> 0, vadc |-> 0]],
     pc |-> "none",
     calls |-> <<>>, cfgs |-> <<>>, fwd |-> <<>>, sent |-> <<>>, from |-> "",
     subs |-> <<>>, args |-> <<>>, val |-> NULL, again |-> FALSE, idx0 |-> NULL,
     ret |-> CMD_STATUS_OK]

\* the machine record of the current state, with an empty report
Begin ==
    [cap |-> capState, lastNumVADC |-> lastNumVADC,
     prefill |-> capture_PrefillComplete__, led |-> led, eng |-> eng, cyc |-> cyc,
     pc |-> pc,
     calls |-> <<>>, cfgs |-> <<>>, fwd |-> <<>>, sent |-> <<>>, from |-> "",
     subs |-> <<>>, args |-> <<>>, val |-> NULL, again |-> FALSE, idx0 |-> NULL,
     ret |-> CMD_STATUS_OK]

\* the next state is machine record m, reached by entry point op
Commit(m, op) ==
    /\ capState' = m.cap
    /\ lastNumVADC' = m.lastNumVADC
    /\ capture_PrefillComplete__' = m.prefill
    /\ led' = m.led
    /\ eng' = m.eng
    /\ cyc' = m.cyc
    /\ pc' = m.pc
    /\ last' = [op |-> op, ret |-> m.ret, calls |-> m.calls, cfgs |-> m.cfgs,
                fwd |-> m.fwd, sent |-> m.sent, from |-> m.from, subs |-> m.subs,
                args |-> m.args, val |-> m.val, again |-> m.again, idx0 |-> m.idx0]

(***************************************************************************)
(* Inputs.                                                                 *)
(***************************************************************************)
\* trigger bits an engine reports are drawn from 0..MaxTrigBits
MaxTrigBits == 1

HostCfg(nS, nV, rate, chans, sTrig, vTrig) ==
    [numEnabledSGPIO |-> nS, numEnabledVADC |-> nV, sampleRate |-> rate,
     postFill |-> 50,
     sgpio |-> [enabledChannels |-> chans, enabledTriggers |-> sTrig],
     vadc |-> [enabledChannels |-> IF nV = 1 THEN 1 ELSE IF nV = 0 THEN 0 ELSE 3,
               enabledTriggers |-> vTrig, voltPerDiv |-> 0,
               couplings |-> 0, noiseReduction |-> 0]]

\* configuration blobs the host sends: one per channel combination, and one
\* that enables nothing (refused; its rate 0 is stored all the same)
HostCfgs ==
    { HostCfg(2, 0, 2000000, 3, 0, 0),          \* digital only
      HostCfg(0, 1, 2000000, 0, 0, 1),          \* analog only, with a trigger
      HostCfg(2, 1, 2000000, 3, 1, 0),          \* mixed, table row (1, 2)
      HostCfg(0, 0, 0, 0, 0, 0) }               \* no channel enabled, rate 0

StartCfgs ==
    { HostCfg(2, 0, 2000000, 3, 0, 0),          \* digital only
      HostCfg(0, 0, 0, 0, 0, 0) }               \* no channel enabled, rate 0

\* the same, and one blob per further cause of refusal, and the escape counts
AllCfgs ==
    HostCfgs \cup
    { HostCfg(1, 0, 10000, 1, 0, 0),            \* rate below the floor
      HostCfg(1, 0, 25000, 1, 0, 0),            \* rate not in the table
      HostCfg(1, 1, 1000000, 2048, 0, 0),       \* mixed, highest channel DIO11
      HostCfg(0, NUM_ENABLED_VADC_CALIBRATE, 1000000, 0, 0, 0),
      HostCfg(0, NUM_ENABLED_VADC_SHORT_SHOT, 1000000, 0, 0, 0) }

\* inputs of the legality check: rates at and next to every limit of the
\* check, enabled-channel masks of every breadth (DIO0 .. DIO11), trigger
\* masks (none, DIO0, DIO11 alone), with every kind of channel combination
CheckRates ==
    {0, 10000, 19999, 20000, 20000000, 20000001, 30000000, 30000001,
     40000000, 40000001, 50000000, 50000001, 60000000, 60000001,
     80000000, 80000001, 100000000}

CheckMasks == {1, 3, 4, 15, 16, 255, 256, 1024, 2047, 2048, 4095}

CheckTriggers == {0, 1, 2048}

CheckAnalogCounts == {1, 2, NUM_ENABLED_VADC_SHORT_SHOT, NUM_ENABLED_VADC_CALIBRATE}

CheckCfgs ==
    {HostCfg(2, 0, rate, chans, sTrig, 0) :
        rate \in CheckRates, chans \in CheckMasks, sTrig \in CheckTriggers}
    \cup
    {HostCfg(2, nV, rate, chans, trig, trig) :
        nV \in CheckAnalogCounts, rate \in CheckRates, chans \in {3, 2047},
        trig \in {0, 1}}
    \cup
    {HostCfg(0, nV, rate, 0, 0, 0) : nV \in CheckAnalogCounts, rate \in CheckRates}

\* configuration blobs for the clock selection: a rate that both
\* sub-ranges of the table hold and a rate of the high-speed sub-range
\* only, each without and with an analog channel
ClockRates == {20000000, 100000000}

ClockCfgs ==
    UNION {{ HostCfg(1, 0, rate, 1, 0, 0),
             HostCfg(0, 1, rate, 0, 0, 0) } : rate \in ClockRates}

\* configuration blobs with table rates below, at and above the floor of
\* configuration blobs for the forced-trigger flag: every combination of
\* engines enabled (the analog count also as the short-shot escape) with
\* every combination of trigger masks, those of a disabled engine included
TrigCfgs ==
    { HostCfg(nS, nV, 2000000, IF nS > 0 THEN 3 ELSE 0, sTrig, vTrig) :
        nS \in {0, 2}, nV \in {0, 1, NUM_ENABLED_VADC_SHORT_SHOT},
        sTrig \in {0, 1}, vTrig \in {0, 1} }

\* the legality check, one per kind of channel combination
FloorRates == {50, 10000, 20000, 2000000}

FloorCfgs ==
    UNION {{ HostCfg(2, 0, rate, 3, 0, 0),
             HostCfg(0, 1, rate, 0, 0, 1),
             HostCfg(0, 2, rate, 0, 0, 0),
             HostCfg(2, 1, rate, 3, 1, 0),
             HostCfg(0, NUM_ENABLED_VADC_CALIBRATE, rate, 0, 0, 0),
             HostCfg(0, NUM_ENABLED_VADC_SHORT_SHOT, rate, 0, 0, 0) } :
           rate \in FloorRates}

\* inputs of the buffer planner: analog counts (literal, beyond the table,
\* and the two escape values), digital counts, and enabled-channel masks
\* (none, each single channel DIO0..DIO11 and the bit above, DIO0 with DIO5,
\* DIO0 with DIO8)
PlanAnalogCounts ==
    {0, 1, 2, 3, NUM_ENABLED_VADC_SHORT_SHOT, NUM_ENABLED_VADC_CALIBRATE}

PlanDigitalCounts == {0, 2}

PlanMasks == {0, 33, 257} \cup {Pow2(i) : i \in 0..(MAX_NUM_DIOS + 1)}

PlanCfgs ==
    {HostCfg(nS, nV, 1000000, chans, 0, 0) :
        nS \in PlanDigitalCounts, nV \in PlanAnalogCounts, chans \in PlanMasks}

\* analog channel counts handed to the clock selection: 0..MaxVadc
MaxVadc == 2

\* requested rates: every rate of the table, the terminators' 0, and two
\* rates between table entries
RateInputs ==
    {RATECONFIG[i].sampleRate : i \in DOMAIN RATECONFIG} \cup {25000, 15000000}

SmAnswers == {CMD_STATUS_OK, ERR_STATE_REFUSED}

EngineAnswers == {CMD_STATUS_OK, ERR_ENGINE}

\* A handler returns at the first collaborator call that fails, so an answer
\* record needs at most one failure: the answers after it are never asked for.
OneFailure(e) == Cardinality({f \in DOMAIN e : e[f] # CMD_STATUS_OK}) <= 1

CfgEnv ==
    {e \in [sm : SmAnswers, sgpioCfg : EngineAnswers, vadcCfg : EngineAnswers] :
        OneFailure(e)}

ArmEnv ==
    {e \in [sm : SmAnswers, prepS : EngineAnswers, prepV : EngineAnswers] :
        OneFailure(e)}

\* hot standby is analog only with an escape count: the state machine and
\* the digital engine are not consulted
StandbyCfgEnv == {e \in CfgEnv : e.sm = CMD_STATUS_OK /\ e.sgpioCfg = CMD_STATUS_OK}

StandbyArmEnv == {e \in ArmEnv : e.sm = CMD_STATUS_OK /\ e.prepS = CMD_STATUS_OK}

CalibrationVadc == {NUM_ENABLED_VADC_SHORT_SHOT}

(***************************************************************************)
(* Actions: one per entry point and per completion callback.               *)
(***************************************************************************)
Configure ==
    \E cfg \in HostCfgs, e \in CfgEnv :
        Commit(capture_Configure(Begin, cfg, e), "capture_Configure")

\* the host's configure as start and stop see it: one blob that is accepted
\* and one that stores a sample rate of 0
ConfigureHost ==
    \E cfg \in StartCfgs, e \in CfgEnv :
        Commit(capture_Configure(Begin, cfg, e), "capture_Configure")

ConfigureAny ==
    \E cfg \in AllCfgs, e \in CfgEnv :
        Commit(capture_Configure(Begin, cfg, e), "capture_Configure")

Arm ==
    \E e \in ArmEnv : Commit(capture_Arm(Begin, e), "capture_Arm")

Disarm == Commit(capture_Disarm(Begin), "capture_Disarm")

Start ==
    \E eCfg \in CfgEnv, eArm \in ArmEnv :
        Commit(capture_Start(Begin, eCfg, eArm), "capture_Start")

Stop ==
    \E eCfg \in StandbyCfgEnv, eArm1 \in StandbyArmEnv, eArm2 \in StandbyArmEnv :
        Commit(capture_Stop(Begin, eCfg, eArm1, eArm2), "capture_Stop")

Reinit == Commit(capture_Init(Begin), "capture_Init")

ConfigureForCalibration ==
    \E vadc \in CalibrationVadc, eCfg \in StandbyCfgEnv, eArm \in StandbyArmEnv :
        Commit(capture_ConfigureForCalibration(Begin, ANALOG_IN_RANGES - 1, vadc, eCfg, eArm),
               "capture_ConfigureForCalibration")

\* the clock selection applied directly: the lookup, and the switch that
\* capture_Configure makes with the rate and the resolved analog count
FindSampleRateIndex ==
    \E wantedRate \in RateInputs, numVADC \in 0..MaxVadc :
        Commit([Begin EXCEPT !.args = <<wantedRate, numVADC>>,
                             !.val = capture_FindSampleRateIndex(wantedRate, numVADC)],
               "capture_FindSampleRateIndex")

SetSampleRate ==
    \E wantedRate \in RateInputs, numVADC \in 0..MaxVadc :
        Commit([capture_SetSampleRate(Begin, wantedRate, numVADC) EXCEPT
                   !.args = <<wantedRate, numVADC>>,
                   !.again = /\ last.op = "capture_SetSampleRate"
                             /\ last.ret = CMD_STATUS_OK
                             /\ last.args = <<wantedRate, numVADC>>,
                   !.idx0 = capState.currentSampleRateIdx],
               "capture_SetSampleRate")

ConfigureTrig ==
    \E cfg \in TrigCfgs, e \in CfgEnv :
        Commit(capture_Configure(Begin, cfg, e), "capture_Configure")

ConfigureClock ==
    \E cfg \in ClockCfgs, e \in CfgEnv :
        Commit(capture_Configure(Begin, cfg, e), "capture_Configure")

ConfigureFloor ==
    \E cfg \in FloorCfgs, e \in CfgEnv :
        Commit(capture_Configure(Begin, cfg, e), "capture_Configure")

\* the legality check applied directly
WeightedConfigCheck ==
    \E cap_cfg \in CheckCfgs :
        Commit([Begin EXCEPT !.args = <<cap_cfg>>,
                             !.val = capture_WeightedConfigCheck(cap_cfg)],
               "capture_WeightedConfigCheck")

\* the buffer planner applied directly
ConfigureCaptureBuffers ==
    \E cap_cfg \in PlanCfgs :
        Commit([capture_ConfigureCaptureBuffers(Begin, cap_cfg) EXCEPT
                   !.args = <<cap_cfg>>],
               "capture_ConfigureCaptureBuffers")

\* a completion is delivered by an engine that has a capture in flight;
\* from: whether the engine had been disarmed before it delivered
Delivered(m, engine, cb) ==
    [m EXCEPT !.eng[engine] = "idle", !.from = m.eng[engine],
              !.cyc.cbs = IF m.cyc.clean THEN Append(@, cb) ELSE @]

\* the engine's done callback was given these trigger bits
Gave(m, engine, trigpoint) ==
    [m EXCEPT !.cyc.bits[engine] = IF m.cyc.clean THEN trigpoint ELSE @]

ReportSGPIODone ==
    /\ eng.sgpio # "idle"
    /\ \E t \in 0..MaxTrigBits :
          Commit(Gave(Delivered(capture_ReportSGPIODone(Begin, "sampleBufferSGPIO",
                                                        t, 100, 3),
                                "sgpio", "SGPIODone"),
                      "sgpio", t),
                 "capture_ReportSGPIODone")

ReportSGPIOSamplingFailed ==
    /\ eng.sgpio # "idle"
    /\ Commit(Delivered(capture_ReportSGPIOSamplingFailed(Begin, ERR_ENGINE),
                        "sgpio", "SGPIOFailed"),
              "capture_ReportSGPIOSamplingFailed")

ReportVADCDone ==
    /\ eng.vadc # "idle"
    /\ \E t \in 0..MaxTrigBits :
          Commit(Gave(Delivered(capture_ReportVADCDone(Begin, "sampleBufferVADC",
                                                       t, 200, 1),
                                "vadc", "VADCDone"),
                      "vadc", t),
                 "capture_ReportVADCDone")

ReportVADCSamplingFailed ==
    /\ eng.vadc # "idle"
    /\ Commit(Delivered(capture_ReportVADCSamplingFailed(Begin, ERR_ENGINE),
                        "vadc", "VADCFailed"),
              "capture_ReportVADCSamplingFailed")

\* the command context between two entry points: configure
ConfigureIdle ==
    /\ pc = "none"
    /\ \E cfg \in HostCfgs, e \in CfgEnv :
          Commit(capture_Configure(Begin, cfg, e), "capture_Configure")

\* capture_Arm step by step; the completion callbacks can run in between
ArmBegin ==
    /\ pc = "none"
    /\ \E e \in ArmEnv : Commit(ArmEnter(Begin, e), "capture_Arm")

ArmPrepares ==
    /\ pc = "reset"
    /\ \E e \in ArmEnv : Commit(ArmPrepareEngines(Begin, e), "capture_Arm")

ArmStartsSgpio ==
    /\ pc = "prepare"
    /\ Commit(ArmStartSgpio(Begin), "capture_Arm")

ArmStartsVadc ==
    /\ pc = "sgpio"
    /\ Commit(ArmStartVadc(Begin), "capture_Arm")

\* a disarmed engine's transfer stops without a completion
EngineStops ==
    \E engine \in {"sgpio", "vadc"} :
        /\ eng[engine] = "disarmed"
        /\ eng' = [eng EXCEPT ![engine] = "idle"]
        /\ last' = [op |-> "EngineStops", ret |-> CMD_STATUS_OK, calls |-> <<>>,
                    cfgs |-> <<>>, fwd |-> <<>>, sent |-> <<>>, from |-> "",
                    subs |-> <<>>, args |-> <<>>, val |-> NULL,
                   again |-> FALSE, idx0 |-> NULL]
        /\ UNCHANGED <<capState, lastNumVADC, capture_PrefillComplete__, led, cyc, pc>>

\* power-up: the statics' initializers, then capture_Init
Init ==
    LET m == capture_Init(StaticInit)
    IN  /\ capState = m.cap
        /\ lastNumVADC = m.lastNumVADC
        /\ capture_PrefillComplete__ = m.prefill
        /\ led = m.led
        /\ eng = m.eng
        /\ cyc = m.cyc
        /\ pc = m.pc
        /\ last = [op |-> "boot", ret |-> CMD_STATUS_OK, calls |-> m.calls,
                   cfgs |-> <<>>, fwd |-> <<>>, sent |-> <<>>, from |-> "",
                   subs |-> <<>>, args |-> <<>>, val |-> NULL,
                   again |-> FALSE, idx0 |-> NULL]

(***************************************************************************)
(* Spec: the controller core, that is configure, arm, disarm and the       *)
(* completion callbacks of the two engines, in every interleaving.         *)
(***************************************************************************)
Next ==
    \/ Configure
    \/ Arm
    \/ Disarm
    \/ ReportSGPIODone
    \/ ReportSGPIOSamplingFailed
    \/ ReportVADCDone
    \/ ReportVADCSamplingFailed
    \/ EngineStops

Spec == Init /\ [][Next]_vars

(***************************************************************************)
(* SpecCfg: the command-context entry points with every kind of            *)
(* configuration blob.  Completion callbacks touch only capturedSamples,   *)
(* which no entry point reads, and are left out.                           *)
(***************************************************************************)
NextCfg ==
    \/ ConfigureAny
    \/ ConfigureForCalibration
    \/ Disarm
    \/ Reinit

SpecCfg == Init /\ [][NextCfg]_vars

(***************************************************************************)
(* SpecHost: the host wrappers start and stop with the entry points they   *)
(* call.                                                                   *)
(***************************************************************************)
NextHost ==
    \/ ConfigureHost
    \/ Arm
    \/ Disarm
    \/ Start
    \/ Stop
    \/ Reinit

SpecHost == Init /\ [][NextHost]_vars

(***************************************************************************)
(* SpecAll: the host wrappers, the entry points and the completion         *)
(* callbacks together.                                                     *)
(***************************************************************************)
NextAll ==
    \/ ConfigureHost
    \/ Arm
    \/ Disarm
    \/ Start
    \/ Stop
    \/ ReportSGPIODone
    \/ ReportSGPIOSamplingFailed
    \/ ReportVADCDone
    \/ ReportVADCSamplingFailed
    \/ EngineStops

SpecAll == Init /\ [][NextAll]_vars

(***************************************************************************)
(* SpecRate: the sample-rate table lookup and the clock selection, with    *)
(* capture_Init, which resets the clock index.                             *)
(***************************************************************************)
NextRate ==
    \/ FindSampleRateIndex
    \/ SetSampleRate
    \/ Reinit

SpecRate == Init /\ [][NextRate]_vars

(***************************************************************************)
(* SpecBuf: the buffer planner, with capture_Init, which resets both       *)
(* buffers to the whole region.                                            *)
(***************************************************************************)
NextBuf ==
    \/ ConfigureCaptureBuffers
    \/ Reinit

SpecBuf == Init /\ [][NextBuf]_vars

(***************************************************************************)
(* SpecArm: configure and a capture_Arm that runs in command context step  *)
(* by step, with the completion callbacks, which the engines deliver in    *)
(* interrupt context, at every point in between.                           *)
(***************************************************************************)
NextArm ==
    \/ ConfigureIdle
    \/ ArmBegin
    \/ ArmPrepares
    \/ ArmStartsSgpio
    \/ ArmStartsVadc
    \/ ReportSGPIODone
    \/ ReportSGPIOSamplingFailed
    \/ ReportVADCDone
    \/ ReportVADCSamplingFailed

SpecArm == Init /\ [][NextArm]_vars

(***************************************************************************)
(* SpecCheck: the weighted legality check.                                 *)
(***************************************************************************)
NextCheck == WeightedConfigCheck

SpecCheck == Init /\ [][NextCheck]_vars

(***************************************************************************)
(* SpecFloor: capture_Configure with rates of the table around the floor   *)
(* of the legality check, and capture_Init, which resets the clock index.  *)
(***************************************************************************)
NextFloor ==
    \/ ConfigureFloor
    \/ Reinit

SpecFloor == Init /\ [][NextFloor]_vars

(***************************************************************************)
(* SpecTrig: capture_Configure with every combination of enabled engines   *)
(* and trigger masks, and capture_Init.                                    *)
(***************************************************************************)
NextTrig ==
    \/ ConfigureTrig
    \/ Reinit

SpecTrig == Init /\ [][NextTrig]_vars

(***************************************************************************)
(* SpecClock: the host entry points and capture_Init with configurations   *)
(* at rates of either sub-range of the rate table.                         *)
(***************************************************************************)
NextClock ==
    \/ ConfigureClock
    \/ Arm
    \/ Disarm
    \/ Start
    \/ Stop
    \/ Reinit

SpecClock == Init /\ [][NextClock]_vars

(***************************************************************************)
(* LabToolCalibrationData (host application): the constructor computes,    *)
(* for each channel and each V/div range, the factors A and B of the line  *)
(* through the two calibration points, and the flag mReasonableData.       *)
(*                                                                         *)
(* A double is modelled as an exact fraction num / den (den > 0), as an    *)
(* infinity with its sign, or as NaN; rounding is not modelled.  Voltages  *)
(* are carried in mV, so a factor in V has the factor 1000 in its den.     *)
(*                                                                         *)
(* The measured codes are quint32 and their difference is taken in quint32 *)
(* arithmetic, so it can be 2^32 more than the difference of the numbers.  *)
(* 2^32 is beyond the integers of the model checker: a fraction is         *)
(* (num + numw * 2^32) / (den + denw * 2^32), and since num and den are    *)
(* below 2^31 in magnitude such numbers compare by numw / denw first.      *)
(***************************************************************************)
ANALOG_IN_CHANNELS == 2

ANALOG_IN_CAL_LOW == 0

ANALOG_IN_CAL_HIGH == 2

SPI_DAC_MIN == 0

SPI_DAC_MAX == 1023

Wide(num, numw, den, denw) ==
    [kind |-> "finite", num |-> num, den |-> den, numw |-> numw, denw |-> denw]

Finite(num, den) == Wide(num, 0, den, 0)

Infinite(sign) == [kind |-> "infinite", num |-> sign, den |-> 0, numw |-> 0, denw |-> 0]

NaN == [kind |-> "nan", num |-> 0, den |-> 0, numw |-> 0, denw |-> 0]

\* x + xw * 2^32 < y + yw * 2^32
WideLess(x, xw, y, yw) == xw < yw \/ (xw = yw /\ x < y)

Sign(x) == IF x < 0 THEN -1 ELSE 1

\* C's integer conversion of a quotient: truncation towards zero
TruncDiv(x, y) ==
    LET q == (IF x < 0 THEN -x ELSE x) \div (IF y < 0 THEN -y ELSE y)
    IN  IF (x < 0) = (y < 0) THEN q ELSE -q

spiDacClipValue(val) ==
    IF val < SPI_DAC_MIN THEN SPI_DAC_MIN
    ELSE IF val > SPI_DAC_MAX THEN SPI_DAC_MAX
    ELSE val

\* the estimated DAC output for a target, in mV (the source returns V).
\* The inputs keep (vH - vL) / (dH - dL) a whole number, so the float
\* arithmetic of the source is exact.
estimateActualDacVoltage(raw, ch, targetMv) ==
    LET dL == raw.dacValOut[ANALOG_IN_CAL_LOW]
        dH == raw.dacValOut[ANALOG_IN_CAL_HIGH]
        vL == raw.userOut[ch][ANALOG_IN_CAL_LOW]
        vH == raw.userOut[ch][ANALOG_IN_CAL_HIGH]
        b == (vH - vL) \div (dH - dL)
        a == vL - b * dL
        dacIn == spiDacClipValue(TruncDiv(targetMv - a, b))
    IN  a + b * dacIn

\* b = (vin1 - vin2) / (inLow - inHigh), in V per code.  The difference of
\* the two quint32 codes is a quint32: with inLow < inHigh it is 2^32 more
\* than the difference of the numbers.
CalibB(raw, ch, i) ==
    LET vin1 == estimateActualDacVoltage(raw, ch, raw.voltsInLow[i])
        vin2 == estimateActualDacVoltage(raw, ch, raw.voltsInHigh[i])
        codes == raw.inLow[ch][i] - raw.inHigh[ch][i]
        wrap == IF codes < 0 THEN 1 ELSE 0
    IN  IF codes # 0 THEN Wide(vin1 - vin2, 0, 1000 * codes, 1000 * wrap)
        ELSE IF vin1 = vin2 THEN NaN
        ELSE Infinite(Sign(vin1 - vin2))

\* a = vin1 - b * inLow, in V
CalibA(raw, ch, i) ==
    LET vin1 == estimateActualDacVoltage(raw, ch, raw.voltsInLow[i])
        b == CalibB(raw, ch, i)
    IN  IF b.kind = "finite"
        THEN Wide(vin1 * (b.den \div 1000) - b.num * raw.inLow[ch][i],
                  vin1 * (b.denw \div 1000), b.den, b.denw)
        ELSE IF b.kind = "infinite" /\ raw.inLow[ch][i] # 0
        THEN Infinite(- b.num)
        ELSE NaN

isInfiniteOrNan(d) == d.kind # "finite"

\* (d < -1000) || (d > 1000) of a double that is not NaN
OutOfRange(d) ==
    \/ d.kind = "infinite"
    \/ d.kind = "finite" /\ (\/ WideLess(d.num, d.numw, -1000 * d.den, -1000 * d.denw)
                             \/ WideLess(1000 * d.den, 1000 * d.denw, d.num, d.numw))

\* the if-chain that clears mReasonableData for one cell
CellUnreasonable(a, b) ==
    \/ isInfiniteOrNan(a)
    \/ OutOfRange(a)
    \/ isInfiniteOrNan(b)
    \/ OutOfRange(b)

\* variant: the flag is assigned from each cell instead of only cleared
RECURSIVE ReasonableAfter_LastCell(_, _)
ReasonableAfter_LastCell(raw, n) ==
    IF n = 0 THEN TRUE
    ELSE LET i == (n - 1) \div ANALOG_IN_CHANNELS
             ch == (n - 1) % ANALOG_IN_CHANNELS
         IN  ~ CellUnreasonable(CalibA(raw, ch, i), CalibB(raw, ch, i))

\* mReasonableData after the first n cells of the loops (range outer,
\* channel inner)
RECURSIVE ReasonableAfter(_, _)
ReasonableAfter(raw, n) ==
    IF n = 0 THEN TRUE
    ELSE LET i == (n - 1) \div ANALOG_IN_CHANNELS
             ch == (n - 1) % ANALOG_IN_CHANNELS
         IN  /\ ReasonableAfter(raw, n - 1)
             /\ ~ CellUnreasonable(CalibA(raw, ch, i), CalibB(raw, ch, i))

LabToolCalibrationData(data) ==
    [mRawResult |-> data,
     mCalibA |-> [ch \in 0..(ANALOG_IN_CHANNELS - 1) |->
                     [i \in 0..(ANALOG_IN_RANGES - 1) |-> CalibA(data, ch, i)]],
     mCalibB |-> [ch \in 0..(ANALOG_IN_CHANNELS - 1) |->
                     [i \in 0..(ANALOG_IN_RANGES - 1) |-> CalibB(data, ch, i)]],
     mReasonableData |-> ReasonableAfter(data, ANALOG_IN_RANGES * ANALOG_IN_CHANNELS)]

\* Raw calibration records.  The plain record has a linear DAC (10 mV per
\* step), targets of +-200 mV .. +-1600 mV by range, and measured codes 1500
\* and 500 in every cell.
PlainCodes == <<1500, 500>>

PlainData ==
    [dacValOut |-> [l \in 0..2 |-> 256 * (l + 1)],
     userOut |-> [ch \in 0..(ANALOG_IN_CHANNELS - 1) |->
                     [l \in 0..2 |-> 2560 * (1 - l)]],
     voltsInLow |-> [i \in 0..(ANALOG_IN_RANGES - 1) |-> 200 * (i + 1)],
     voltsInHigh |-> [i \in 0..(ANALOG_IN_RANGES - 1) |-> -200 * (i + 1)],
     inLow |-> [ch \in 0..(ANALOG_IN_CHANNELS - 1) |->
                   [i \in 0..(ANALOG_IN_RANGES - 1) |-> PlainCodes[1]]],
     inHigh |-> [ch \in 0..(ANALOG_IN_CHANNELS - 1) |->
                    [i \in 0..(ANALOG_IN_RANGES - 1) |-> PlainCodes[2]]]]

\* measured <<low, high>> codes of a cell: plain; equal; equal and 0; one
\* code apart (a steep line); two codes apart (A is -1000 V in range 4)
CellCodes == {PlainCodes, <<700, 700>>, <<0, 0>>, <<2000, 1999>>, <<1001, 999>>}

Cells == (0..(ANALOG_IN_CHANNELS - 1)) \X (0..(ANALOG_IN_RANGES - 1))

WithCodes(raw, cell, codes) ==
    [raw EXCEPT !.inLow[cell[1]][cell[2]] = codes[1],
                !.inHigh[cell[1]][cell[2]] = codes[2]]

\* the high target of range i equal to the low target
WithFlatRange(raw, i) == [raw EXCEPT !.voltsInHigh[i] = raw.voltsInLow[i]]

\* the plain record with the codes of up to two cells replaced, and with
\* or without one range (the first or the last) of equal targets
CalibInputs ==
    LET coded == {WithCodes(WithCodes(PlainData, c1, k1), c2, k2) :
                     c1 \in Cells, k1 \in CellCodes, c2 \in Cells, k2 \in CellCodes}
    IN  coded \cup {WithFlatRange(raw, i) : raw \in coded, i \in {0, ANALOG_IN_RANGES - 1}}

\* the application constructs the calibration object from the record read
\* from the hardware
LoadCalibration ==
    /\ last.op = "boot"
    /\ \E data \in CalibInputs :
           Commit([Begin EXCEPT !.args = <<data>>, !.val = LabToolCalibrationData(data)],
                  "LabToolCalibrationData")

\* Records for the input-side factors: measured codes 30 and 10 in every
\* cell, and in up to two cells another pair: the low code above the high
\* code, below it, next to it on either side, or equal to it
SlopeBase ==
    [PlainData EXCEPT
        !.inLow = [ch \in 0..(ANALOG_IN_CHANNELS - 1) |->
                      [i \in 0..(ANALOG_IN_RANGES - 1) |-> 30]],
        !.inHigh = [ch \in 0..(ANALOG_IN_CHANNELS - 1) |->
                       [i \in 0..(ANALOG_IN_RANGES - 1) |-> 10]]]

SlopeCodes == {<<30, 10>>, <<10, 30>>, <<1, 0>>, <<0, 1>>, <<7, 7>>}

SlopeInputs ==
    {WithCodes(WithCodes(SlopeBase, c1, k1), c2, k2) :
        c1 \in Cells, k1 \in SlopeCodes, c2 \in Cells, k2 \in SlopeCodes}

LoadMeasured ==
    /\ last.op = "boot"
    /\ \E data \in SlopeInputs :
           Commit([Begin EXCEPT !.args = <<data>>, !.val = LabToolCalibrationData(data)],
                  "LabToolCalibrationData")

NextCalib == LoadCalibration

SpecCalib == Init /\ [][NextCalib]_vars

\* SpecSlope: the constructor on records whose measured codes come in both
\* orders
NextSlope == LoadMeasured

SpecSlope == Init /\ [][NextSlope]_vars

(***************************************************************************)
(* Properties.                                                             *)
(***************************************************************************)
BothEnabled == capState.enabledSgpioChannels > 0 /\ capState.enabledVadcChannels > 0

OnlyVadcEnabled == capState.enabledSgpioChannels = 0 /\ capState.enabledVadcChannels > 0

OnlySgpioEnabled == capState.enabledSgpioChannels > 0 /\ capState.enabledVadcChannels = 0

Called(c) == \E i \in DOMAIN last.calls : last.calls[i] = c

\* the last step delivered a completion callback, which called exactly cs
CallbackCalled(cs) ==
    (last.op \in {"capture_ReportSGPIODone", "capture_ReportVADCDone"}) => last.calls = cs

\* C1: completion rendezvous with both engines enabled.  In a cycle started
\* by a capture_Arm that returned OK and in which only completion callbacks
\* have run since, the done callback of one engine alone notifies nothing,
\* and the done callback of the other engine after it makes exactly one
\* sample notification, in either order of the two.
C1_Rendezvous ==
    (cyc.clean /\ BothEnabled) =>
        /\ cyc.cbs \in {<<"SGPIODone">>, <<"VADCDone">>} =>
              (cyc.sends = 0 /\ CallbackCalled(<<>>))
        /\ cyc.cbs \in {<<"SGPIODone", "VADCDone">>, <<"VADCDone", "SGPIODone">>} =>
              (cyc.sends = 1 /\ CallbackCalled(<<"usb_handler_SendSamples">>))

C1_Witness ==
    /\ cyc.clean /\ BothEnabled
    /\ cyc.cbs = <<"SGPIODone", "VADCDone">>
    /\ cyc.sends = 1

\* C2: at most one sample notification is emitted between one reset of
\* capturedSamples by capture_Arm and the next.
C2_AtMostOnce == cyc.sends <= 1

\* C3, as claimed: with exactly one engine enabled, every capture_Arm marks
\* the disabled engine's half pre-fill complete (CAP_PREFILL_MARK_*_DONE) and
\* does not prepare or arm the disabled engine.
C3_EveryArmMarks ==
    (last.op = "capture_Arm") =>
        /\ OnlyVadcEnabled =>
              /\ Called("CAP_PREFILL_MARK_SGPIO_DONE")
              /\ ~ Called("cap_sgpio_PrepareToArm") /\ ~ Called("cap_sgpio_Arm")
        /\ OnlySgpioEnabled =>
              /\ Called("CAP_PREFILL_MARK_VADC_DONE")
              /\ ~ Called("cap_vadc_PrepareToArm") /\ ~ Called("cap_vadc_Arm")

\* C3, amended: with exactly one engine enabled, a capture_Arm that returns
\* OK has marked the disabled engine's half pre-fill complete; no capture_Arm
\* prepares or arms the disabled engine; and in the cycle such an arm starts
\* a single done callback of the enabled engine alone makes the sample
\* notification.
C3_DisabledPresatisfied ==
    /\ (last.op = "capture_Arm" /\ last.ret = CMD_STATUS_OK) =>
          /\ OnlyVadcEnabled => Called("CAP_PREFILL_MARK_SGPIO_DONE")
          /\ OnlySgpioEnabled => Called("CAP_PREFILL_MARK_VADC_DONE")
    /\ (last.op = "capture_Arm" /\ capState.enabledSgpioChannels = 0) =>
          (~ Called("cap_sgpio_PrepareToArm") /\ ~ Called("cap_sgpio_Arm"))
    /\ (last.op = "capture_Arm" /\ capState.enabledVadcChannels = 0) =>
          (~ Called("cap_vadc_PrepareToArm") /\ ~ Called("cap_vadc_Arm"))
    /\ (cyc.clean /\ OnlyVadcEnabled /\ cyc.cbs = <<"VADCDone">>) =>
          (cyc.sends = 1 /\ CallbackCalled(<<"usb_handler_SendSamples">>))
    /\ (cyc.clean /\ OnlySgpioEnabled /\ cyc.cbs = <<"SGPIODone">>) =>
          (cyc.sends = 1 /\ CallbackCalled(<<"usb_handler_SendSamples">>))

C3_Witness ==
    /\ cyc.clean /\ OnlyVadcEnabled
    /\ "SGPIO" \in capture_PrefillComplete__
    /\ cyc.cbs = <<"VADCDone">>
    /\ cyc.sends = 1

C5_LateCallbackNoOp ==
    (last.from = "disarmed") =>
        (~ Called("usb_handler_SendSamples") /\ ~ Called("usb_handler_SignalFailedSampling"))

ValidationErrors ==
    {CMD_STATUS_ERR_CFG_NO_CHANNELS_ENABLED,
     CMD_STATUS_ERR_CFG_INVALID_SIGNAL_COMBINATION,
     CMD_STATUS_ERR_UNSUPPORTED_SAMPLE_RATE}

CountersZero == capState.enabledSgpioChannels = 0 /\ capState.enabledVadcChannels = 0

\* C6, as claimed: after a capture_Configure that returns a non-OK status,
\* whatever the cause, both enabled-channel counters are zero.
C6_FailedConfigureZero ==
    (last.op = "capture_Configure" /\ last.ret # CMD_STATUS_OK) => CountersZero

\* C6, amended: after a capture_Configure that returns a non-OK status other
\* than the state machine's refusal both enabled-channel counters are zero;
\* a capture_Configure refused by the state machine leaves both counters as
\* they were.
C6_FailedConfigure ==
    [][ (last'.op = "capture_Configure" /\ last'.ret # CMD_STATUS_OK) =>
            IF last'.ret = ERR_STATE_REFUSED
            THEN /\ capState'.enabledSgpioChannels = capState.enabledSgpioChannels
                 /\ capState'.enabledVadcChannels = capState.enabledVadcChannels
            ELSE /\ capState'.enabledSgpioChannels = 0
                 /\ capState'.enabledVadcChannels = 0
      ]_vars

C6_Witness ==
    /\ last.op = "capture_Configure"
    /\ last.ret = ERR_ENGINE
    /\ Called("cap_sgpio_Configure") /\ Called("cap_vadc_Configure")
    /\ CountersZero

NothingEnabled(cfg) == cfg.numEnabledSGPIO = 0 /\ cfg.numEnabledVADC = 0

\* C7, as claimed: capture_Configure with no digital and no analog channel
\* enabled returns the no-channels-enabled error and leaves both counters zero.
C7_NoChannelsAlways ==
    (last.op = "capture_Configure" /\ NothingEnabled(last.cfgs[1])) =>
        (last.ret = CMD_STATUS_ERR_CFG_NO_CHANNELS_ENABLED /\ CountersZero)

\* C7, amended: capture_Configure with no digital and no analog channel
\* enabled, when the state machine grants the transition, returns the
\* no-channels-enabled error and leaves both counters zero; when the state
\* machine refuses, it returns the state machine's error.
C7_NoChannels ==
    (last.op = "capture_Configure" /\ NothingEnabled(last.cfgs[1])) =>
        /\ last.calls = <<"capture_Configure", "statemachine_RequestState">>
        /\ \/ last.ret = ERR_STATE_REFUSED
           \/ last.ret = CMD_STATUS_ERR_CFG_NO_CHANNELS_ENABLED /\ CountersZero

C7_Witness ==
    /\ last.op = "capture_Configure"
    /\ NothingEnabled(last.cfgs[1])
    /\ last.ret = CMD_STATUS_ERR_CFG_NO_CHANNELS_ENABLED
    /\ CountersZero
    /\ lastNumVADC > 0

IsEscape(cfg) ==
    cfg.numEnabledVADC \in {NUM_ENABLED_VADC_SHORT_SHOT, NUM_ENABLED_VADC_CALIBRATE}

BuffersUnchanged ==
    /\ capState'.sampleBufferSGPIO = capState.sampleBufferSGPIO
    /\ capState'.sampleBufferVADC = capState.sampleBufferVADC

\* C8, as claimed: a capture_Configure that returns a validation error leaves
\* captureSetup, the current clock index and the buffer partition as they
\* were before the call.
C8_ValidationErrorNoChange ==
    [][ (last'.op = "capture_Configure" /\ last'.ret \in ValidationErrors) =>
            /\ capState'.captureSetup = capState.captureSetup
            /\ capState'.currentSampleRateIdx = capState.currentSampleRateIdx
            /\ BuffersUnchanged
      ]_vars

\* C8, amended: a capture_Configure that returns a validation error leaves
\* the buffer partition as it was; captureSetup is the request if the count
\* is genuine and unchanged if it is an escape value; the clock index is
\* unchanged unless the error comes from the buffer planner, and then it is
\* the table entry of the requested rate.
C8_ValidationError ==
    [][ (last'.op = "capture_Configure" /\ last'.ret \in ValidationErrors) =>
            LET cfg == last'.cfgs[1]
                planner == /\ ~ NothingEnabled(cfg)
                           /\ capture_WeightedConfigCheck(cfg) = CMD_STATUS_OK
                           /\ last'.ret = CMD_STATUS_ERR_CFG_INVALID_SIGNAL_COMBINATION
            IN  /\ BuffersUnchanged
                /\ capState'.captureSetup =
                       IF IsEscape(cfg) THEN capState.captureSetup ELSE cfg
                /\ IF planner
                   THEN RATECONFIG[capState'.currentSampleRateIdx].sampleRate = cfg.sampleRate
                   ELSE capState'.currentSampleRateIdx = capState.currentSampleRateIdx
      ]_vars

C8_Witness ==
    /\ last.op = "capture_Configure"
    /\ last.ret = CMD_STATUS_ERR_CFG_INVALID_SIGNAL_COMBINATION
    /\ capture_WeightedConfigCheck(last.cfgs[1]) = CMD_STATUS_OK
    /\ capState.captureSetup = last.cfgs[1]
    /\ capState.sampleBufferVADC # circbuff_Init(BUFFER_BASE, BUFFER_SIZE)

\* C9: capture_Configure with the short-shot or the calibrate escape count
\* sets purpose to ShortShot or Calibrate, does not request the state-machine
\* transition and leaves captureSetup unchanged; a genuine count sets purpose
\* HostRequest, overwrites captureSetup with the request and requests the
\* transition.  The same holds of the capture_Configure that
\* capture_ConfigureForCalibration makes.
C9_Classification ==
    [][ (last'.op \in {"capture_Configure", "capture_ConfigureForCalibration"}) =>
            LET cfg == last'.cfgs[1]
                asked == \E i \in DOMAIN last'.calls :
                             /\ last'.calls[i] = "statemachine_RequestState"
                             /\ \A j \in 1..(i - 1) : last'.calls[j] # "capture_Arm"
            IN  IF IsEscape(cfg)
                THEN /\ capState'.purpose =
                            IF cfg.numEnabledVADC = NUM_ENABLED_VADC_SHORT_SHOT
                            THEN "CAPTURE_PURPOSE_SHORT_SHOT"
                            ELSE "CAPTURE_PURPOSE_CALIBRATE"
                     /\ ~ asked
                     /\ capState'.captureSetup = capState.captureSetup
                ELSE /\ capState'.purpose = "CAPTURE_PURPOSE_HOST_REQUEST"
                     /\ capState'.captureSetup = cfg
                     /\ asked
      ]_vars

C9_Witness ==
    /\ last.op = "capture_Configure"
    /\ last.cfgs[1].numEnabledVADC = NUM_ENABLED_VADC_SHORT_SHOT
    /\ capState.purpose = "CAPTURE_PURPOSE_SHORT_SHOT"
    /\ capState.captureSetup # ZeroCfg
    /\ capState.captureSetup # last.cfgs[1]

\* the entry points a handler ran, in order
EntryPoints(calls) ==
    SelectSeq(calls, LAMBDA c : c \in {"capture_Disarm", "capture_Init",
                                       "capture_Configure", "capture_Arm"})

\* C10, as claimed: capture_Start with host intent Disarmed runs disarm,
\* capture_Init, configure with captureSetup and arm, in this order; with host
\* intent Armed it runs arm only.
C10_StartOrderingAlways ==
    [][ (last'.op = "capture_Start") =>
            /\ capState.hostRequest = "CAPTURE_HOST_DISARMED" =>
                  /\ EntryPoints(last'.calls) =
                        <<"capture_Disarm", "capture_Init", "capture_Configure", "capture_Arm">>
                  /\ last'.cfgs = <<capState.captureSetup>>
            /\ capState.hostRequest = "CAPTURE_HOST_ARMED" =>
                  /\ EntryPoints(last'.calls) = <<"capture_Arm">>
                  /\ last'.cfgs = <<>>
      ]_vars

\* C10, amended: the same, when captureSetup holds a sample rate other than
\* 0; when the stored sample rate is 0, capture_Start runs nothing and
\* returns the unsupported-sample-rate error.
C10_StartOrdering ==
    [][ (last'.op = "capture_Start") =>
            IF capState.captureSetup.sampleRate = 0
            THEN /\ last'.calls = <<>>
                 /\ last'.ret = CMD_STATUS_ERR_UNSUPPORTED_SAMPLE_RATE
            ELSE /\ capState.hostRequest = "CAPTURE_HOST_DISARMED" =>
                       /\ EntryPoints(last'.calls) =
                             <<"capture_Disarm", "capture_Init", "capture_Configure", "capture_Arm">>
                       /\ last'.cfgs = <<capState.captureSetup>>
                 /\ capState.hostRequest = "CAPTURE_HOST_ARMED" =>
                       /\ EntryPoints(last'.calls) = <<"capture_Arm">>
                       /\ last'.cfgs = <<>>
      ]_vars

C10_Witness ==
    /\ last.op = "capture_Start"
    /\ EntryPoints(last.calls) =
          <<"capture_Disarm", "capture_Init", "capture_Configure", "capture_Arm">>
    /\ last.cfgs = <<capState.captureSetup>>
    /\ last.ret = CMD_STATUS_OK

\* the sub-steps of the last entry point that returned an error
FailedSubs == {i \in DOMAIN last.subs : last.subs[i].ret # CMD_STATUS_OK}

\* C11: capture_Start error precedence.  When an earlier sub-step (disarm or
\* re-configure) failed and the arm after it succeeded, capture_Start returns
\* the earlier sub-step's error; capture_Start returns OK only if every
\* sub-step it ran returned OK (and, having run any, returns OK if all did).
C11_StartErrorPrecedence ==
    (last.op = "capture_Start") =>
        /\ last.ret = CMD_STATUS_OK => FailedSubs = {}
        /\ (last.subs # <<>> /\ FailedSubs = {}) => last.ret = CMD_STATUS_OK
        /\ \A i \in FailedSubs :
              (/\ last.subs[i].step # "capture_Arm"
               /\ last.subs[Len(last.subs)].ret = CMD_STATUS_OK
               /\ \A j \in FailedSubs : j <= i)
                 => last.ret = last.subs[i].ret

C11_Witness ==
    /\ last.op = "capture_Start"
    /\ Len(last.subs) = 3
    /\ last.subs[2] = [step |-> "capture_Configure", ret |-> ERR_ENGINE]
    /\ last.subs[3] = [step |-> "capture_Arm", ret |-> CMD_STATUS_OK]
    /\ last.ret = ERR_ENGINE

\* host intent after a capture_Stop that found it as hostRequest
StopIntent(hostRequest) ==
    IF hostRequest = "CAPTURE_HOST_ARMED" THEN "CAPTURE_HOST_DISARMED" ELSE hostRequest

\* C12, as claimed: host intent starts as DoesNothing; every capture_Start
\* records Armed; capture_Stop changes Armed to Disarmed and nothing else; no
\* other operation modifies it; it never returns to DoesNothing.
C12_EveryStartArmed ==
    /\ capState.hostRequest = "CAPTURE_HOST_DOES_NOTHING"
    /\ [][ /\ last'.op = "capture_Start" =>
                 capState'.hostRequest = "CAPTURE_HOST_ARMED"
           /\ last'.op = "capture_Stop" =>
                 capState'.hostRequest = StopIntent(capState.hostRequest)
           /\ last'.op \notin {"capture_Start", "capture_Stop"} =>
                 capState'.hostRequest = capState.hostRequest
           /\ capState.hostRequest # "CAPTURE_HOST_DOES_NOTHING" =>
                 capState'.hostRequest # "CAPTURE_HOST_DOES_NOTHING"
         ]_vars

\* C12, amended: the same, except that a capture_Start that finds a stored
\* sample rate of 0 returns without recording anything: host intent is left
\* as it was.  A capture_Start that finds another rate records Armed whatever
\* its sub-steps return.
C12_HostIntent ==
    /\ capState.hostRequest = "CAPTURE_HOST_DOES_NOTHING"
    /\ [][ /\ last'.op = "capture_Start" =>
                 capState'.hostRequest =
                     IF capState.captureSetup.sampleRate = 0
                     THEN capState.hostRequest
                     ELSE "CAPTURE_HOST_ARMED"
           /\ last'.op = "capture_Stop" =>
                 capState'.hostRequest = StopIntent(capState.hostRequest)
           /\ last'.op \notin {"capture_Start", "capture_Stop"} =>
                 capState'.hostRequest = capState.hostRequest
           /\ capState.hostRequest # "CAPTURE_HOST_DOES_NOTHING" =>
                 capState'.hostRequest # "CAPTURE_HOST_DOES_NOTHING"
         ]_vars

C12_Witness ==
    /\ last.op = "capture_Start"
    /\ Len(last.subs) = 3
    /\ last.ret # CMD_STATUS_OK
    /\ capState.hostRequest = "CAPTURE_HOST_ARMED"

\* C13: capture_Stop always runs both capture_Disarm and capture_HotSandby,
\* in this order, and returns the most recent failure of the two: the hot
\* standby's error if it failed, otherwise what capture_Disarm returned (so
\* a disarm error would not be masked by a hot-standby success).
C13_StopBothSteps ==
    (last.op = "capture_Stop") =>
        /\ Len(last.subs) = 2
        /\ last.subs[1].step = "capture_Disarm"
        /\ last.subs[2].step = "capture_HotSandby"
        /\ EntryPoints(last.calls)[1] = "capture_Disarm"
        /\ Called("capture_Init")
        /\ last.ret = IF last.subs[2].ret # CMD_STATUS_OK
                      THEN last.subs[2].ret
                      ELSE last.subs[1].ret

C13_Witness ==
    /\ last.op = "capture_Stop"
    /\ Len(last.subs) = 2
    /\ last.subs[1].ret = CMD_STATUS_OK
    /\ last.subs[2].ret = ERR_ENGINE
    /\ last.ret = ERR_ENGINE

\* the engine calls of a handler, in order
EngineCalls(calls) ==
    SelectSeq(calls, LAMBDA c : c \in {"cap_sgpio_PrepareToArm", "cap_vadc_PrepareToArm",
                                       "cap_sgpio_Arm", "cap_vadc_Arm",
                                       "cap_sgpio_Disarm", "cap_vadc_Disarm"})

\* the engine calls of a capture_Arm that returns OK with the counters s, v
ArmSequence(s, v) ==
    (IF s > 0 THEN <<"cap_sgpio_PrepareToArm">> ELSE <<>>) \o
    (IF v > 0 THEN <<"cap_vadc_PrepareToArm">> ELSE <<>>) \o
    (IF s > 0 THEN <<"cap_sgpio_Arm">> ELSE <<>>) \o
    (IF v > 0 THEN <<"cap_vadc_Arm">> ELSE <<>>)

\* C14: capture_Arm's two-phase start.  A capture_Arm that returns OK has
\* prepared every enabled engine and then armed every enabled engine.  One
\* that returns an error has returned at the first prepareToArm that failed
\* (the digital engine's before the analog engine's is tried), has invoked
\* no engine's arm phase, has disarmed nothing and leaves both engines as
\* they were.
C14_TwoPhaseArm ==
    [][ (last'.op = "capture_Arm") =>
            LET s == capState.enabledSgpioChannels
                v == capState.enabledVadcChannels
                ec == EngineCalls(last'.calls)
            IN  IF last'.ret = CMD_STATUS_OK
                THEN ec = ArmSequence(s, v)
                ELSE /\ eng' = eng
                     /\ \/ ec = <<>> /\ last'.ret = ERR_STATE_REFUSED
                        \/ /\ s > 0 /\ last'.ret = ERR_ENGINE
                           /\ ec = <<"cap_sgpio_PrepareToArm">>
                        \/ /\ v > 0 /\ last'.ret = ERR_ENGINE
                           /\ ec = (IF s > 0 THEN <<"cap_sgpio_PrepareToArm">> ELSE <<>>)
                                   \o <<"cap_vadc_PrepareToArm">>
      ]_vars

C14_Witness ==
    /\ last.op = "capture_Arm"
    /\ BothEnabled
    /\ last.ret = ERR_ENGINE
    /\ EngineCalls(last.calls) = <<"cap_sgpio_PrepareToArm", "cap_vadc_PrepareToArm">>
    /\ eng = [sgpio |-> "idle", vadc |-> "idle"]

\* the two sub-ranges of RATECONFIG, each ended by an entry of rate 0
GeneralRange == 0..(SGPIO_ONLY_OFFSET - 2)

HighSpeedRange == SGPIO_ONLY_OFFSET..(Cardinality(DOMAIN RATECONFIG) - 2)

\* the indices of a sub-range whose entry has exactly this rate
Matches(range, rate) == {i \in range : RATECONFIG[i].sampleRate = rate}

\* C15, as claimed: a rate present in the general sub-range yields the sole
\* general index with that rate, for every analog channel count; a rate
\* present only in the high-speed sub-range is found iff the count is 0; a
\* rate in neither sub-range yields -1.
C15_GeneralIndexAlways ==
    (last.op = "capture_FindSampleRateIndex") =>
        LET rate == last.args[1]
            numVADC == last.args[2]
        IN  IF Matches(GeneralRange, rate) # {}
            THEN Matches(GeneralRange, rate) = {last.val}
            ELSE IF Matches(HighSpeedRange, rate) # {}
            THEN IF numVADC = 0
                 THEN Matches(HighSpeedRange, rate) = {last.val}
                 ELSE last.val = -1
            ELSE last.val = -1

\* C15, amended: with an analog channel count of 0 a rate present in the
\* high-speed sub-range yields its sole high-speed index, also when the
\* general sub-range has the rate too; otherwise a rate present in the
\* general sub-range yields its sole general index; otherwise -1.
C15_FindIndex ==
    (last.op = "capture_FindSampleRateIndex") =>
        LET rate == last.args[1]
            numVADC == last.args[2]
        IN  IF numVADC = 0 /\ Matches(HighSpeedRange, rate) # {}
            THEN Matches(HighSpeedRange, rate) = {last.val}
            ELSE IF Matches(GeneralRange, rate) # {}
            THEN Matches(GeneralRange, rate) = {last.val}
            ELSE last.val = -1

C15_Witness ==
    /\ last.op = "capture_FindSampleRateIndex"
    /\ last.args = <<10000000, 0>>
    /\ last.val = SGPIO_ONLY_OFFSET

\* C16: capture_SetSampleRate is idempotent.  When a call that returned OK
\* is immediately followed by a call with the same rate and the same analog
\* channel count, the second call returns OK, makes no call at all to the
\* clock unit (no disable / enable of the peripheral domains, no PLL
\* switch) and leaves the clock index unchanged.
C16_Idempotent ==
    (last.op = "capture_SetSampleRate" /\ last.again) =>
        /\ last.ret = CMD_STATUS_OK
        /\ last.calls = <<>>
        /\ capState.currentSampleRateIdx = last.idx0

\* the second of two calls for two analog channels at 2 MHz
C16_Witness ==
    /\ last.op = "capture_SetSampleRate"
    /\ last.again
    /\ last.args = <<2000000, 2>>
    /\ last.ret = CMD_STATUS_OK
    /\ last.calls = <<>>
    /\ lastNumVADC = 2
    /\ RATECONFIG[capState.currentSampleRateIdx].sampleRate = 2000000

\* the entry the lookup resolves the rate to, for two analog channels, has
\* counter 1
CounterOne(rate) ==
    LET i == capture_FindSampleRateIndex(rate, 2)
    IN  i # -1 /\ RATECONFIG[i].counter = 1

\* C17: from every reachable state, capture_SetSampleRate called with two
\* analog channels and a rate whose entry has counter 1 returns the
\* unsupported-sample-rate error, makes no call to the clock unit, and
\* leaves the clock index and the recorded count unchanged.
C17_TwoChannelsCounterOne ==
    [][(/\ last'.op = "capture_SetSampleRate"
        /\ last'.args[2] = 2
        /\ CounterOne(last'.args[1]))
       => (/\ last'.ret = CMD_STATUS_ERR_UNSUPPORTED_SAMPLE_RATE
           /\ last'.calls = <<>>
           /\ capState'.currentSampleRateIdx = capState.currentSampleRateIdx
           /\ lastNumVADC' = lastNumVADC)]_vars

\* the request is refused while the clock already runs at the requested
\* rate, selected from the high-speed sub-range
C17_Witness ==
    /\ last.op = "capture_SetSampleRate"
    /\ last.args = <<50000000, 2>>
    /\ last.ret = CMD_STATUS_ERR_UNSUPPORTED_SAMPLE_RATE
    /\ RATECONFIG[capState.currentSampleRateIdx].sampleRate = 50000000

\* the whole physical region as one buffer
FullRegion == circbuff_Init(BUFFER_BASE, BUFFER_SIZE)

\* the planner ran in the step taken, on this configuration
Planned == last'.op = "capture_ConfigureCaptureBuffers"

PlannedCfg == last'.args[1]

\* the step set the digital buffer to b and left the analog buffer alone
OnlyDigitalBuffer(b) ==
    /\ capState'.sampleBufferSGPIO = b
    /\ capState'.sampleBufferVADC = capState.sampleBufferVADC

\* the step set the analog buffer to b and left the digital buffer alone
OnlyAnalogBuffer(b) ==
    /\ capState'.sampleBufferVADC = b
    /\ capState'.sampleBufferSGPIO = capState.sampleBufferSGPIO

PlannedMixed ==
    /\ last.op = "capture_ConfigureCaptureBuffers"
    /\ last.args[1].numEnabledSGPIO # 0
    /\ last.args[1].numEnabledVADC \notin {0, NUM_ENABLED_VADC_SHORT_SHOT}

\* the analog count the lookup uses: the calibration escape value counts as
\* two channels
ResolvedAnalog(cfg) ==
    IF cfg.numEnabledVADC = NUM_ENABLED_VADC_CALIBRATE THEN 2 ELSE cfg.numEnabledVADC

\* index + 1 of the highest channel of DIO0..DIO11 enabled in the mask, 0
\* when none of them is enabled
NormalizedDigital(cfg) ==
    LET low == cfg.sgpio.enabledChannels % 4096
    IN  CHOOSE d \in 0..12 : IF d = 0 THEN low = 0
                             ELSE 2 ^ (d - 1) <= low /\ low < 2 * 2 ^ (d - 1)

\* the rows of the combination table for analog count a, digital count d
Rows(a, d) ==
    {i \in DOMAIN BUFFERCONFIG :
        BUFFERCONFIG[i].numVADC = a /\ BUFFERCONFIG[i].numDIO = d}

\* the two buffers are those of table row i
BuffersOfRow(i) ==
    /\ capState.sampleBufferSGPIO.start = BUFFER_BASE
    /\ capState.sampleBufferSGPIO.start + capState.sampleBufferSGPIO.size
           = BUFFERCONFIG[i].buffEndSGPIO
    /\ capState.sampleBufferVADC.start = BUFFERCONFIG[i].buffStartVADC
    /\ capState.sampleBufferVADC.start + capState.sampleBufferVADC.size = BUFFER_TOP

\* C19: for every row (a, d) of the combination table, a mixed plan whose
\* analog count resolves to a and whose normalized digital count is d
\* returns OK with the digital buffer from 0x20000000 to the row's digital
\* end and the analog buffer from the row's analog start to 0x20010000; the
\* digital buffer ends at or below the start of the analog buffer; row
\* (1, 9) gives digital end 0x20005A00 and analog start 0x20006000.
C19_RowBoundaries ==
    PlannedMixed =>
        /\ \A i \in DOMAIN BUFFERCONFIG :
              (/\ ResolvedAnalog(last.args[1]) = BUFFERCONFIG[i].numVADC
               /\ NormalizedDigital(last.args[1]) = BUFFERCONFIG[i].numDIO)
              => /\ last.ret = CMD_STATUS_OK
                 /\ BuffersOfRow(i)
                 /\ capState.sampleBufferSGPIO.start + capState.sampleBufferSGPIO.size
                        <= capState.sampleBufferVADC.start
        /\ (ResolvedAnalog(last.args[1]) = 1 /\ NormalizedDigital(last.args[1]) = 9)
              => /\ capState.sampleBufferSGPIO.start + capState.sampleBufferSGPIO.size
                        = \H20005A00
                 /\ capState.sampleBufferVADC.start = \H20006000

\* one analog channel with DIO0 and DIO8 enabled: row (1, 9)
C19_Witness ==
    /\ PlannedMixed
    /\ last.args[1].numEnabledVADC = 1
    /\ last.args[1].sgpio.enabledChannels = 257
    /\ last.ret = CMD_STATUS_OK
    /\ capState.sampleBufferSGPIO = circbuff_Init(\H20000000, \H5A00)
    /\ capState.sampleBufferVADC = circbuff_Init(\H20006000, \HA000)

\* C20: a mixed plan looks the table up with the index of the highest
\* enabled digital channel plus 1, not with the number of enabled channels.
\* It returns OK, with the buffers of the one row for that pair, if and
\* only if the resolved analog count is 1 or 2 and that digital count is in
\* 1..11, each such pair being in the table exactly once; in every other
\* case (no channel of the mask enabled, highest channel DIO11, another
\* analog count) it returns the invalid-signal-combination error.
C20_NormalizedLookup ==
    /\ \A a \in {1, 2}, d \in 1..11 : Cardinality(Rows(a, d)) = 1
    /\ PlannedMixed =>
          LET a == ResolvedAnalog(last.args[1])
              d == NormalizedDigital(last.args[1])
          IN  IF a \in {1, 2} /\ d \in 1..11
              THEN /\ last.ret = CMD_STATUS_OK
                   /\ \A i \in Rows(a, d) : BuffersOfRow(i)
              ELSE last.ret = CMD_STATUS_ERR_CFG_INVALID_SIGNAL_COMBINATION

\* two channels enabled, DIO0 and DIO5: the plan is that of row (1, 6),
\* which differs from that of row (1, 2)
C20_Witness ==
    /\ PlannedMixed
    /\ last.args[1].numEnabledVADC = 1
    /\ last.args[1].numEnabledSGPIO = 2
    /\ last.args[1].sgpio.enabledChannels = 33
    /\ last.ret = CMD_STATUS_OK
    /\ \A i \in Rows(1, 6) : BuffersOfRow(i)
    /\ \A i \in Rows(1, 2) : ~ BuffersOfRow(i)

\* the last step applied the legality check to cfg
Checked == last.op = "capture_WeightedConfigCheck"

CheckedCfg == last.args[1]

\* C22: with at least one analog and at least one digital channel enabled
\* the legality check accepts exactly the rates from 20000 to 20000000,
\* whatever the enabled digital channels and the triggers.
C22_MixedCeiling ==
    (/\ Checked
     /\ CheckedCfg.numEnabledVADC # 0
     /\ CheckedCfg.numEnabledSGPIO # 0)
    => (last.val = CMD_STATUS_OK
           <=> (20000 <= CheckedCfg.sampleRate /\ CheckedCfg.sampleRate <= 20000000))

\* one analog channel with DIO0 and DIO1, no trigger, at 20000001 Hz: a rate
\* the digital channels alone would be allowed
C22_Witness ==
    /\ Checked
    /\ CheckedCfg.numEnabledVADC = 1
    /\ CheckedCfg.sgpio.enabledChannels = 3
    /\ CheckedCfg.sgpio.enabledTriggers = 0
    /\ CheckedCfg.sampleRate = 20000001
    /\ last.val = CMD_STATUS_ERR_CFG_INVALID_SIGNAL_COMBINATION

\* the last step applied the legality check to a digital-only configuration
CheckedDigitalOnly == Checked /\ CheckedCfg.numEnabledVADC = 0

\* every channel enabled in mask a is enabled in mask b (DIO0..DIO11)
Within(a, b) == \A i \in 0..11 : BitSet(a, i) => BitSet(b, i)

\* the configuration with another enabled-channel mask, trigger mask, rate
WithChannels(cfg, chans) == [cfg EXCEPT !.sgpio.enabledChannels = chans]

WithTriggers(cfg, trigs) == [cfg EXCEPT !.sgpio.enabledTriggers = trigs]

WithRate(cfg, rate) == [cfg EXCEPT !.sampleRate = rate]

Accepts(cfg) == capture_WeightedConfigCheck(cfg) = CMD_STATUS_OK

\* C29: for digital-only capture at a fixed rate and trigger mask, a
\* configuration the check rejects stays rejected with every wider set of
\* enabled channels; and a configuration the check rejects with no trigger
\* stays rejected with every trigger mask.
C29_BreadthMonotone ==
    (CheckedDigitalOnly /\ last.val # CMD_STATUS_OK) =>
        /\ \A wider \in CheckMasks :
              Within(CheckedCfg.sgpio.enabledChannels, wider)
                  => ~ Accepts(WithChannels(CheckedCfg, wider))
        /\ CheckedCfg.sgpio.enabledTriggers = 0
              => \A trigs \in CheckTriggers : ~ Accepts(WithTriggers(CheckedCfg, trigs))

\* DIO0..DIO7 at 60 MHz is rejected, and so is DIO0..DIO10, while the
\* narrower DIO0..DIO3 is accepted at that rate
C29_Witness ==
    /\ CheckedDigitalOnly
    /\ CheckedCfg.sgpio.enabledChannels = 255
    /\ CheckedCfg.sgpio.enabledTriggers = 0
    /\ CheckedCfg.sampleRate = 60000000
    /\ last.val # CMD_STATUS_OK
    /\ Accepts(WithChannels(CheckedCfg, 15))
    /\ ~ Accepts(WithChannels(CheckedCfg, 2047))

\* the highest of the rates the check accepts for the channels and triggers
\* of cfg
MaxLegalRate(cfg) ==
    LET legal == {rate \in CheckRates : Accepts(WithRate(cfg, rate))}
    IN  CHOOSE rate \in legal : \A other \in legal : other <= rate

\* one of DIO0..DIO10 is a trigger
TriggerQualifies(cfg) == cfg.sgpio.enabledTriggers % 2048 # 0

\* the breadth bands of the enabled channels DIO0..DIO10
WidestBand(cfg) == cfg.sgpio.enabledChannels % 2048 >= 256

MiddleBand(cfg) ==
    cfg.sgpio.enabledChannels % 2048 >= 16 /\ cfg.sgpio.enabledChannels % 2048 < 256

NarrowBand(cfg) ==
    cfg.sgpio.enabledChannels % 2048 >= 4 /\ cfg.sgpio.enabledChannels % 2048 < 16

\* C30, as claimed: for digital-only capture with one of DIO8..DIO10
\* enabled and a trigger among DIO0..DIO10, the maximum legal rate is
\* strictly below that of the same channels with no trigger.
C30_WidestTriggerLowers ==
    (CheckedDigitalOnly /\ WidestBand(CheckedCfg) /\ TriggerQualifies(CheckedCfg))
    => MaxLegalRate(CheckedCfg) < MaxLegalRate(WithTriggers(CheckedCfg, 0))

\* C30, amended: for digital-only capture with a trigger among DIO0..DIO10,
\* the maximum legal rate with one of DIO8..DIO10 enabled is 20 MHz, the
\* same as with no trigger; the trigger lowers the maximum only in the
\* narrower bands: from 50 MHz to 40 MHz with the highest enabled channel
\* in DIO4..DIO7, and to 80 MHz, from no ceiling, with the highest enabled
\* channel in DIO2..DIO3.
C30_TriggerCeilings ==
    (CheckedDigitalOnly /\ TriggerQualifies(CheckedCfg)) =>
        LET with == MaxLegalRate(CheckedCfg)
            without == MaxLegalRate(WithTriggers(CheckedCfg, 0))
        IN  /\ WidestBand(CheckedCfg) => with = 20000000 /\ without = 20000000
            /\ MiddleBand(CheckedCfg) => with = 40000000 /\ without = 50000000
            /\ NarrowBand(CheckedCfg)
                  => /\ with = 80000000
                     /\ \A rate \in CheckRates :
                           rate >= 20000
                               => Accepts(WithRate(WithTriggers(CheckedCfg, 0), rate))

\* DIO0..DIO10 with DIO0 as trigger, at 20 MHz: accepted
C30_Witness ==
    /\ CheckedDigitalOnly
    /\ CheckedCfg.sgpio.enabledChannels = 2047
    /\ CheckedCfg.sgpio.enabledTriggers = 1
    /\ CheckedCfg.sampleRate = 20000000
    /\ last.val = CMD_STATUS_OK

\* the last step was a capture_Configure with a rate below 20000 Hz
ConfiguredBelowFloor ==
    /\ last.op = "capture_Configure"
    /\ last.cfgs[1].sampleRate < 20000

\* the calls that switch the clock
ClockCalls ==
    {"CGU_Disable_PERIPH", "CGU_Disable_VADC", "CGU_Improved_SetPLL0audio",
     "CGU_UpdateClock", "CGU_Enable_PERIPH", "CGU_Enable_VADC"}

\* C21: the clock never runs from a table entry with a rate below 20000 Hz.
\* A capture_Configure with a rate below 20000 Hz, for every channel
\* combination (digital only, analog only, mixed, either escape count),
\* makes no call that switches the clock and is refused: with the
\* invalid-signal-combination error of the legality check, or, for a host
\* request, with the error of the state machine when that refuses first.
C21_RateFloor ==
    /\ RATECONFIG[capState.currentSampleRateIdx].sampleRate >= 20000
    /\ ConfiguredBelowFloor =>
          /\ \A i \in DOMAIN last.calls : last.calls[i] \notin ClockCalls
          /\ IF last.cfgs[1].numEnabledVADC
                    \in {NUM_ENABLED_VADC_SHORT_SHOT, NUM_ENABLED_VADC_CALIBRATE}
             THEN last.ret = CMD_STATUS_ERR_CFG_INVALID_SIGNAL_COMBINATION
             ELSE last.ret \in {CMD_STATUS_ERR_CFG_INVALID_SIGNAL_COMBINATION,
                                ERR_STATE_REFUSED}

\* a mixed configuration at 10000 Hz, a rate of the table, refused by the
\* legality check
C21_Witness ==
    /\ ConfiguredBelowFloor
    /\ last.cfgs[1].sampleRate = 10000
    /\ last.cfgs[1].numEnabledSGPIO = 2
    /\ last.cfgs[1].numEnabledVADC = 1
    /\ last.ret = CMD_STATUS_ERR_CFG_INVALID_SIGNAL_COMBINATION
    /\ \E i \in DOMAIN RATECONFIG : RATECONFIG[i].sampleRate = 10000

\* the last step constructed a calibration object
Loaded == last.op = "LabToolCalibrationData"

\* a factor is finite with magnitude at most 1000
WithinThousand(d) ==
    /\ d.kind = "finite"
    /\ -1000 * d.den <= d.num
    /\ d.num <= 1000 * d.den

\* the cells other than cell whose measured codes are those of data
CorruptedOnly(data, cell) ==
    /\ data.inLow[cell[1]][cell[2]] = data.inHigh[cell[1]][cell[2]]
    /\ \A other \in Cells \ {cell} :
          data.inLow[other[1]][other[2]] # data.inHigh[other[1]][other[2]]

\* C23: the flag mReasonableData of a constructed calibration object is
\* true if and only if, in all 16 cells, A and B are finite with magnitude
\* at most 1000.  When exactly one cell has equal low and high codes the
\* flag is false, and A and B of the 15 other cells are those computed
\* from the same record with that cell's codes made plain.
C23_ReasonableFlag ==
    Loaded =>
        /\ last.val.mReasonableData
              <=> \A cell \in Cells :
                     /\ WithinThousand(last.val.mCalibA[cell[1]][cell[2]])
                     /\ WithinThousand(last.val.mCalibB[cell[1]][cell[2]])
        /\ \A cell \in Cells :
              CorruptedOnly(last.args[1], cell) =>
                  /\ ~ last.val.mReasonableData
                  /\ LET repaired ==
                             LabToolCalibrationData(
                                 WithCodes(last.args[1], cell, PlainCodes))
                     IN  \A other \in Cells \ {cell} :
                            /\ last.val.mCalibA[other[1]][other[2]]
                                   = repaired.mCalibA[other[1]][other[2]]
                            /\ last.val.mCalibB[other[1]][other[2]]
                                   = repaired.mCalibB[other[1]][other[2]]

\* equal codes in the first cell only: its slope is infinite, the flag is
\* false, and the last cell has its plain, finite factors
C23_Witness ==
    /\ Loaded
    /\ CorruptedOnly(last.args[1], <<0, 0>>)
    /\ last.val.mCalibB[0][0].kind = "infinite"
    /\ ~ last.val.mReasonableData
    /\ WithinThousand(last.val.mCalibA[1][ANALOG_IN_RANGES - 1])
    /\ last.val.mCalibA[1][ANALOG_IN_RANGES - 1]
           = LabToolCalibrationData(PlainData).mCalibA[1][ANALOG_IN_RANGES - 1]

\* the step taken delivers the second of the two done callbacks of a cycle
\* in which nothing but these two callbacks has run since capture_Arm
\* returned OK
BothDoneNow ==
    /\ cyc'.clean
    /\ Len(cyc.cbs) = 1
    /\ cyc'.cbs \in {<<"SGPIODone", "VADCDone">>, <<"VADCDone", "SGPIODone">>}

\* the merged result of digital trigger bits d and analog trigger bits a
Merged(d, a) ==
    [trigpoint |-> d + a * 65536,
     sgpioTrigSample |-> 100, sgpioActiveChannels |-> 3,
     sgpio_samples |-> "sampleBufferSGPIO",
     vadcTrigSample |-> 200, vadcActiveChannels |-> 1,
     vadc_samples |-> "sampleBufferVADC"]

\* the digital, the analog fields of the result stay as they are in the step
DigitalPartKept ==
    /\ capState'.capturedSamples.trigpoint % 65536
           = capState.capturedSamples.trigpoint % 65536
    /\ capState'.capturedSamples.sgpioTrigSample = capState.capturedSamples.sgpioTrigSample
    /\ capState'.capturedSamples.sgpioActiveChannels
           = capState.capturedSamples.sgpioActiveChannels
    /\ capState'.capturedSamples.sgpio_samples = capState.capturedSamples.sgpio_samples

AnalogPartKept ==
    /\ capState'.capturedSamples.trigpoint \div 65536
           = capState.capturedSamples.trigpoint \div 65536
    /\ capState'.capturedSamples.vadcTrigSample = capState.capturedSamples.vadcTrigSample
    /\ capState'.capturedSamples.vadcActiveChannels
           = capState.capturedSamples.vadcActiveChannels
    /\ capState'.capturedSamples.vadc_samples = capState.capturedSamples.vadc_samples

\* C24: when the second of the two done callbacks of an arm cycle is
\* delivered, in either order, exactly one result is notified: its
\* trigger-point field is the digital trigger bits plus 2^16 times the
\* analog trigger bits, and it carries the digital engine's trigger sample,
\* channel mask and buffer and the analog engine's.  A digital done
\* callback leaves the analog fields of the result as they are, and an
\* analog done callback the digital fields.
C24_MergedResult ==
    [][/\ BothDoneNow
          => /\ last'.sent = <<Merged(cyc'.bits.sgpio, cyc'.bits.vadc)>>
             /\ capState'.capturedSamples = Merged(cyc'.bits.sgpio, cyc'.bits.vadc)
       /\ last'.op = "capture_ReportSGPIODone" => AnalogPartKept
       /\ last'.op = "capture_ReportVADCDone" => DigitalPartKept]_vars

\* the analog engine finished first, both engines with trigger bits 1
C24_Witness ==
    /\ cyc.clean
    /\ cyc.cbs = <<"VADCDone", "SGPIODone">>
    /\ cyc.bits = [sgpio |-> 1, vadc |-> 1]
    /\ last.op = "capture_ReportSGPIODone"
    /\ last.sent = <<Merged(1, 1)>>
    /\ last.sent[1].trigpoint = 65537

\* C25, as claimed: in an arm cycle with both engines enabled, when the done
\* callback of one engine has been delivered and the other engine then
\* delivers its failed callback, that failed callback signals the failure to
\* the client; symmetric for the digital and the analog engine.
C25_FailureAfterDone ==
    (/\ cyc.clean /\ BothEnabled
     /\ cyc.cbs \in {<<"VADCDone", "SGPIOFailed">>, <<"SGPIODone", "VADCFailed">>}
     /\ last.op \in {"capture_ReportSGPIOSamplingFailed",
                     "capture_ReportVADCSamplingFailed"})
        => (Called("usb_handler_SignalFailedSampling") /\ cyc.failures = 1)

\* the steps of a clock switch, in the order of the code
ClockSwitchSteps ==
    <<"CGU_Disable_PERIPH", "CGU_Disable_VADC", "CGU_Improved_SetPLL0audio",
      "CGU_UpdateClock", "CGU_Enable_PERIPH", "CGU_Enable_VADC">>

\* the two clock-dependent peripheral domains after one call on them
DomainStep(c, d) ==
    CASE c = "CGU_Disable_PERIPH" -> [d EXCEPT !.periph = FALSE]
      [] c = "CGU_Disable_VADC"   -> [d EXCEPT !.vadc = FALSE]
      [] c = "CGU_Enable_PERIPH"  -> [d EXCEPT !.periph = TRUE]
      [] c = "CGU_Enable_VADC"    -> [d EXCEPT !.vadc = TRUE]
      [] OTHER                    -> d

RECURSIVE DomainsAfter(_, _)
DomainsAfter(calls, d) ==
    IF calls = <<>> THEN d ELSE DomainsAfter(Tail(calls), DomainStep(Head(calls), d))

\* the PLL and the derived clocks change only while both domains are off
RECURSIVE SwitchedWhileOff(_, _)
SwitchedWhileOff(calls, d) ==
    IF calls = <<>> THEN TRUE
    ELSE /\ Head(calls) \in {"CGU_Improved_SetPLL0audio", "CGU_UpdateClock"}
               => (~ d.periph /\ ~ d.vadc)
         /\ SwitchedWhileOff(Tail(calls), DomainStep(Head(calls), d))

BothDomainsOn == [periph |-> TRUE, vadc |-> TRUE]

\* the call of this step is neither rejected nor a call that asks for the
\* rate and the analog channel count already in force
ChangesClock ==
    /\ last'.op = "capture_SetSampleRate"
    /\ last'.ret = CMD_STATUS_OK
    /\ \/ RATECONFIG[capState.currentSampleRateIdx].sampleRate # last'.args[1]
       \/ lastNumVADC # last'.args[2]

\* C27: a capture_SetSampleRate call that changes the clock switches both
\* peripheral domains off, sets the PLL, recomputes the derived clocks and
\* switches both domains on again, in this order and nothing else, and
\* returns with the new index and the new analog channel count recorded; a
\* call that is rejected or asks for what is already in force makes none of
\* these calls and records nothing.  Either way both domains are on when the
\* call returns, and the PLL changes only while both are off.
C27_ClockSwitchProtocol ==
    [][(last'.op = "capture_SetSampleRate") =>
          /\ IF ChangesClock
             THEN /\ last'.calls = ClockSwitchSteps
                  /\ lastNumVADC' = last'.args[2]
                  /\ RATECONFIG[capState'.currentSampleRateIdx].sampleRate = last'.args[1]
             ELSE /\ last'.calls = <<>>
                  /\ UNCHANGED <<capState, lastNumVADC>>
          /\ DomainsAfter(last'.calls, BothDomainsOn) = BothDomainsOn
          /\ SwitchedWhileOff(last'.calls, BothDomainsOn)]_vars

\* a switch to another rate row for two analog channels
C27_Witness ==
    /\ last.op = "capture_SetSampleRate"
    /\ last.ret = CMD_STATUS_OK
    /\ last.calls = ClockSwitchSteps
    /\ last.args[2] = 2
    /\ lastNumVADC = 2
    /\ last.idx0 # capState.currentSampleRateIdx

\* room for VADC_SHORT_SHOT_SAMPLES 16-bit samples at the start of the region
ShortShotBuffer == circbuff_Init(BUFFER_BASE, 2 * VADC_SHORT_SHOT_SAMPLES)

\* the last step was a capture_Configure with the short-shot escape count
\* that went on past the planner to the analog engine
ShortShotForwarded ==
    /\ last.op \in {"capture_Configure", "capture_ConfigureForCalibration"}
    /\ last.cfgs # <<>>
    /\ last.cfgs[1].numEnabledVADC = NUM_ENABLED_VADC_SHORT_SHOT
    /\ \E i \in DOMAIN last.fwd : last.fwd[i].engine = "VADC"

\* C28, as claimed: for a capture_Configure with the short-shot escape count
\* the planner sets one buffer, of 2 * VADC_SHORT_SHOT_SAMPLES bytes at
\* 0x20000000, and the analog engine is configured with that buffer.
C28_ShortShotBufferUsed ==
    ShortShotForwarded =>
        \A i \in DOMAIN last.fwd :
            (last.fwd[i].engine = "VADC") => (last.fwd[i].buff = ShortShotBuffer)

\* what holds instead: the planner sets the digital buffer to the short-shot
\* size and the analog engine is given the analog buffer, which the planner
\* left as it was before the call
ShortShotPlanned ==
    [][ShortShotForwarded' =>
          /\ capState'.sampleBufferSGPIO = ShortShotBuffer
          /\ capState'.sampleBufferVADC = capState.sampleBufferVADC
          /\ \A i \in DOMAIN last'.fwd :
                (last'.fwd[i].engine = "VADC")
                    => (last'.fwd[i].buff = capState.sampleBufferVADC)]_vars

CompletionCallbacks ==
    {"capture_ReportSGPIODone", "capture_ReportSGPIOSamplingFailed",
     "capture_ReportVADCDone", "capture_ReportVADCSamplingFailed"}

\* C26, as claimed: from the reset of capturedSamples by capture_Arm to the
\* end of its engine start sequence no completion callback is delivered.
C26_NoCallbackWhileArming ==
    [][(pc # "none") => (last'.op \notin CompletionCallbacks)]_vars

\* the step-by-step capture_Arm, run without a callback in between, ends in
\* the state the one-step capture_Arm ends in
ArmInStepsAgrees ==
    [][(pc = "none" /\ last'.op = "capture_Arm" /\ pc' = "none")
          => \E e \in ArmEnv :
                LET m == capture_Arm(Begin, e)
                IN  /\ capState' = m.cap
                    /\ capture_PrefillComplete__' = m.prefill
                    /\ led' = m.led /\ eng' = m.eng /\ last'.ret = m.ret]_vars

\* the consequence the claim draws: with both engines enabled, a result is
\* not notified while an engine started by the running arm cycle is still
\* capturing, that is, with a portion that this cycle's capture did not give
ResultOfOneCycle ==
    (/\ BothEnabled /\ cyc.clean /\ pc = "none"
     /\ last.op \in {"capture_ReportSGPIODone", "capture_ReportVADCDone"}
     /\ Called("usb_handler_SendSamples"))
        => (eng.sgpio = "idle" /\ eng.vadc = "idle")

\* C31, as claimed: for every configuration and every sample rate the
\* legality check returns CMD_STATUS_OK or
\* CMD_STATUS_ERR_CFG_INVALID_SIGNAL_COMBINATION and nothing else.
C31_TwoStatuses ==
    Checked => last.val \in {CMD_STATUS_OK, CMD_STATUS_ERR_CFG_INVALID_SIGNAL_COMBINATION}

\* what the check returns: the third status, exactly for analog channels
\* alone above their ceiling (60 MHz, or 30 MHz with two channels or an
\* escape count), at a rate not below the floor
CheckStatuses ==
    Checked =>
        /\ last.val \in {CMD_STATUS_OK, CMD_STATUS_ERR_CFG_INVALID_SIGNAL_COMBINATION,
                         CMD_STATUS_ERR_UNSUPPORTED_SAMPLE_RATE}
        /\ (last.val = CMD_STATUS_ERR_UNSUPPORTED_SAMPLE_RATE)
              <=> /\ CheckedCfg.sampleRate >= 20000
                  /\ CheckedCfg.numEnabledVADC # 0
                  /\ CheckedCfg.numEnabledSGPIO = 0
                  /\ \/ CheckedCfg.sampleRate > 60000000
                     \/ CheckedCfg.sampleRate > 30000000 /\ CheckedCfg.numEnabledVADC >= 2

\* the request of the capture_Configure that just ran, and its analog count
\* with the escape values resolved
ConfiguredCfg == last.cfgs[1]

TriggerQualifying(cfg) ==
    \/ cfg.numEnabledSGPIO > 0 /\ cfg.sgpio.enabledTriggers # 0
    \/ ConfigureVadc(cfg) > 0 /\ cfg.vadc.enabledTriggers # 0

\* C32: every engine configuration that capture_Configure forwards carries
\* the forced-trigger flag, which is true exactly when no enabled engine has
\* a nonzero trigger mask: the mask of a disabled engine does not count,
\* and two engines configured in one call get the same flag.
C32_ForcedTrigger ==
    (last.op = "capture_Configure") =>
        \A i \in DOMAIN last.fwd :
            /\ last.fwd[i].forcedTrigger = ~ TriggerQualifying(ConfiguredCfg)
            /\ \A j \in DOMAIN last.fwd :
                  last.fwd[j].forcedTrigger = last.fwd[i].forcedTrigger

\* analog channels alone with no analog trigger, and a trigger mask left in
\* the digital part of the request: the analog engine is told to force
C32_Witness ==
    /\ last.op = "capture_Configure"
    /\ last.ret = CMD_STATUS_OK
    /\ ConfiguredCfg.numEnabledSGPIO = 0
    /\ ConfiguredCfg.sgpio.enabledTriggers = 1
    /\ ConfiguredCfg.vadc.enabledTriggers = 0
    /\ Len(last.fwd) = 1
    /\ last.fwd[1].engine = "VADC"
    /\ last.fwd[1].forcedTrigger

\* the double d is the number n / (1000 * m)
SameValue(d, n, m) ==
    /\ d.kind = "finite"
    /\ d.num * m = n * (d.den \div 1000)
    /\ d.numw * m = n * (d.denw \div 1000)

\* the factors of cell <<ch, i>> of the object just constructed are those of
\* the line through (codeLow, vIn1) and (codeHigh, vIn2), in V
FactorsOfLine(ch, i) ==
    LET data == last.args[1]
        vIn1 == estimateActualDacVoltage(data, ch, data.voltsInLow[i])
        vIn2 == estimateActualDacVoltage(data, ch, data.voltsInHigh[i])
        codeLow == data.inLow[ch][i]
        codeHigh == data.inHigh[ch][i]
    IN  /\ SameValue(last.val.mCalibB[ch][i], vIn1 - vIn2, codeLow - codeHigh)
        /\ SameValue(last.val.mCalibA[ch][i],
                     vIn1 * (codeLow - codeHigh) - (vIn1 - vIn2) * codeLow,
                     codeLow - codeHigh)

\* C33, as claimed: for every channel and range whose two measured codes
\* differ, whichever is the larger, the slope B is (vIn1 - vIn2) divided by
\* the difference codeLow - codeHigh of the two numbers, and the intercept A
\* is vIn1 - B * codeLow.
C33_InputFactors ==
    Loaded =>
        \A cell \in Cells :
            (last.args[1].inLow[cell[1]][cell[2]] # last.args[1].inHigh[cell[1]][cell[2]])
                => FactorsOfLine(cell[1], cell[2])

\* what the constructor computes: the claimed line when codeLow > codeHigh;
\* with codeLow < codeHigh the divisor is 2^32 more than codeLow - codeHigh
FactorsAsComputed ==
    Loaded =>
        \A cell \in Cells :
            LET data == last.args[1]
                ch == cell[1]
                i == cell[2]
                b == last.val.mCalibB[ch][i]
            IN  /\ (data.inLow[ch][i] > data.inHigh[ch][i]) => FactorsOfLine(ch, i)
                /\ (data.inLow[ch][i] < data.inHigh[ch][i]) =>
                      /\ b.kind = "finite"
                      /\ b.num = estimateActualDacVoltage(data, ch, data.voltsInLow[i])
                                   - estimateActualDacVoltage(data, ch, data.voltsInHigh[i])
                      /\ b.den = 1000 * (data.inLow[ch][i] - data.inHigh[ch][i])
                      /\ b.denw = 1000
                      /\ ~ FactorsOfLine(ch, i)

SgpioCallbacks == {"SGPIODone", "SGPIOFailed"}

VadcCallbacks == {"VADCDone", "VADCFailed"}

\* in the arm cycle that capture_Arm started with OK, and with nothing but
\* completion callbacks since, every enabled engine has delivered its one
\* callback and no other callback has come
CycleComplete ==
    /\ cyc.clean
    /\ \/ /\ OnlySgpioEnabled
          /\ Len(cyc.cbs) = 1 /\ cyc.cbs[1] \in SgpioCallbacks
       \/ /\ OnlyVadcEnabled
          /\ Len(cyc.cbs) = 1 /\ cyc.cbs[1] \in VadcCallbacks
       \/ /\ BothEnabled
          /\ Len(cyc.cbs) = 2
          /\ \/ cyc.cbs[1] \in SgpioCallbacks /\ cyc.cbs[2] \in VadcCallbacks
             \/ cyc.cbs[1] \in VadcCallbacks /\ cyc.cbs[2] \in SgpioCallbacks

\* C34, as claimed: when every enabled engine has delivered its one
\* callback, done or failed, in an arm cycle nothing else intervened in,
\* exactly one outward notification, samples or failure, has been made for
\* the cycle, also with both engines enabled and one or both of them failed.
C34_OneNotification ==
    CycleComplete => (cyc.sends + cyc.failures = 1)

\* what the callbacks do: one notification when one engine is enabled or
\* both engines are done, none when both are enabled and one has failed
NotificationsOfCycle ==
    CycleComplete =>
        IF BothEnabled /\ (\E k \in 1..2 : cyc.cbs[k] \in {"SGPIOFailed", "VADCFailed"})
        THEN cyc.sends = 0 /\ cyc.failures = 0
        ELSE cyc.sends + cyc.failures = 1

\* the configuration in force is the stored host configuration
HostConfigurationInForce ==
    /\ capState.purpose = "CAPTURE_PURPOSE_HOST_REQUEST"
    /\ capState.enabledSgpioChannels = capState.captureSetup.numEnabledSGPIO
    /\ capState.enabledVadcChannels = ConfigureVadc(capState.captureSetup)

\* C35, as claimed: whenever capture_Start returns OK, the capture it armed
\* is the stored host configuration: the purpose is the host request and the
\* enabled-channel counters are those of captureSetup.
C35_StartArmsHostCfg ==
    (last.op = "capture_Start" /\ last.ret = CMD_STATUS_OK) => HostConfigurationInForce

\* what capture_Start does: it restores the host configuration only when
\* the host intent was Disarmed, and then the claim holds
StartAfterStopRestores ==
    [][(/\ last'.op = "capture_Start" /\ last'.ret = CMD_STATUS_OK
        /\ capState.hostRequest = "CAPTURE_HOST_DISARMED")
          => HostConfigurationInForce']_vars

\* an engine whose arm phase was invoked, that has not completed and has
\* not been told to stop
StillArmed(engine) == eng[engine] = "armed"

\* C36, as claimed: when capture_Disarm returns, every engine that an
\* earlier capture_Arm started and that has not completed has received a
\* disarm call, whatever capture_Configure did to the counters in between.
C36_DisarmStopsArmed ==
    (last.op = "capture_Disarm") => (~StillArmed("sgpio") /\ ~StillArmed("vadc"))

\* what capture_Disarm does: it stops the engines whose counter is above
\* zero when it is called
DisarmByCounters ==
    (last.op = "capture_Disarm") =>
        /\ (capState.enabledSgpioChannels > 0 => ~StillArmed("sgpio"))
        /\ (capState.enabledVadcChannels > 0 => ~StillArmed("vadc"))
        /\ (capState.enabledSgpioChannels > 0 <=> Called("cap_sgpio_Disarm"))
        /\ (capState.enabledVadcChannels > 0 <=> Called("cap_vadc_Disarm"))

\* the arm phase of an engine was invoked in the last call
ArmPhaseInvoked == Called("cap_sgpio_Arm") \/ Called("cap_vadc_Arm")

\* C38, as claimed: whenever capture_Arm returns OK, with the armed
\* indicator on, the arm phase of at least one engine was invoked in that
\* call.
C38_ArmOkArmsAnEngine ==
    (last.op = "capture_Arm" /\ last.ret = CMD_STATUS_OK /\ led.arm)
        => ArmPhaseInvoked

\* what capture_Arm does: it invokes the arm phase of the engines whose
\* counter is above zero, and of none when both counters are zero
ArmByCounters ==
    (last.op = "capture_Arm" /\ last.ret = CMD_STATUS_OK) =>
        /\ (capState.enabledSgpioChannels > 0 <=> Called("cap_sgpio_Arm"))
        /\ (capState.enabledVadcChannels > 0 <=> Called("cap_vadc_Arm"))

\* how many times the last call invoked c
Times(c) == Cardinality({i \in DOMAIN last.calls : last.calls[i] = c})

\* C39, as claimed: one capture_Stop resets capturedSamples (the reset is
\* followed by CAP_PREFILL_SET_AS_NEEDED) and invokes the prepare and arm
\* phases of the analog engine at most once.
C39_StandbyArmsOnce ==
    (last.op = "capture_Stop") =>
        /\ Times("CAP_PREFILL_SET_AS_NEEDED") <= 1
        /\ Times("cap_vadc_PrepareToArm") <= 1
        /\ Times("cap_vadc_Arm") <= 1

\* what capture_HotSandby does: capture_Arm runs once more after
\* capture_ConfigureForCalibration, which has armed already when its
\* configure succeeded
StandbyArmsAgain ==
    (last.op = "capture_Stop") =>
        /\ Times("capture_Arm") \in {1, 2}
        /\ Times("CAP_PREFILL_SET_AS_NEEDED") = Times("capture_Arm")
        /\ (last.ret = CMD_STATUS_OK =>
                /\ Times("capture_Arm") = 2
                /\ Times("cap_vadc_PrepareToArm") = 2
                /\ Times("cap_vadc_Arm") = 2)

\* the two sub-ranges of the rate table
GeneralRows == 0..(SGPIO_ONLY_OFFSET - 2)

HighSpeedRows == SGPIO_ONLY_OFFSET..(Cardinality(DOMAIN RATECONFIG) - 2)

\* C37: whenever the enabled analog channel counter is above zero the clock
\* index is a row of the general sub-range (PLL output at most 80 MHz),
\* never a row of the digital-only high-speed sub-range.
C37_AnalogClockRange ==
    (capState.enabledVadcChannels > 0) =>
        /\ capState.currentSampleRateIdx \in GeneralRows
        /\ capState.currentSampleRateIdx \notin HighSpeedRows
        /\ RATECONFIG[capState.currentSampleRateIdx].pll0_freq <= 80000000

\* an analog capture configured at a rate that both sub-ranges hold
C37_Witness ==
    /\ last.op = "capture_Configure"
    /\ last.ret = CMD_STATUS_OK
    /\ capState.enabledVadcChannels > 0
    /\ capState.captureSetup.sampleRate = 20000000
    /\ ScanRateTable(SGPIO_ONLY_OFFSET, 20000000) \in HighSpeedRows
    /\ capState.currentSampleRateIdx = 17

\* the high-speed rows are in use for captures without analog channels
HighSpeedRowInUse ==
    /\ capState.currentSampleRateIdx \in HighSpeedRows
    /\ capState.enabledVadcChannels = 0

\* C40: the clock index always names a real row of the rate table (never
\* the terminator of a sub-range), and after a successful capture_Configure
\* the sample rate of that row is the sample rate of the request.
C40_ClockIndexValid ==
    /\ capState.currentSampleRateIdx \in GeneralRows \cup HighSpeedRows
    /\ RATECONFIG[capState.currentSampleRateIdx].sampleRate > 0
    /\ (last.op = "capture_Configure" /\ last.ret = CMD_STATUS_OK) =>
           RATECONFIG[capState.currentSampleRateIdx].sampleRate
               = last.cfgs[1].sampleRate

\* a request accepted on a row of the high-speed sub-range
C40_Witness ==
    /\ last.op = "capture_Configure"
    /\ last.ret = CMD_STATUS_OK
    /\ last.cfgs[1].sampleRate = 100000000
    /\ capState.currentSampleRateIdx \in HighSpeedRows
    /\ RATECONFIG[capState.currentSampleRateIdx].sampleRate = 100000000

=============================================================================
